---- MODULE Spec2Model ----
(***************************************************************************)
(* Search gateway over a full-text engine: the search orchestrator         *)
(* (SearchService), the engine client adapter (ElasticsearchService) and   *)
(* the single-item endpoint of SearchController.                           *)
(*                                                                         *)
(* Strings that the code inspects character by character (query text,      *)
(* identifiers) are sequences of one-character strings; an optional value  *)
(* (a `?:` field, undefined, null) is the empty tuple when absent and a    *)
(* one-element tuple when present.                                         *)
(***************************************************************************)
EXTENDS Integers, Sequences, FiniteSets, TLC

\* The search gateway: one request through controller, orchestrator, adapter
VARIABLES pc, query, sent, calls, primary, facets, svc, http

\* MediaService: the position of one call, its argument, the ids handed to
\* the search service, the item found, the HEAD requests issued, the results
\* validated so far and the promise the call returns
VARIABLES mpc, input, lookups, found, heads, validated, reply

\* The adapter's engine client: this.client, the clients created so far,
\* this.healthCheckInterval, the asynchronous tasks, the engine and the
\* position of the module in its life cycle
VARIABLES client, clients, interval, tasks, engine, lifecycle

mediaVars == <<mpc, input, lookups, found, heads, validated, reply>>

clientVars == <<client, clients, interval, tasks, engine, lifecycle>>

vars == <<pc, query, sent, calls, primary, facets, svc, http, mediaVars, clientVars>>

(***************************************************************************)
(* Bounds of the model                                                     *)
(***************************************************************************)
MaxQLen == 3
MaxFrom == 4
MaxSize == 3
MaxTotal == 5
MaxHits == 2
MaxSuggestTotal == 12
MaxTextLen == 3
MaxDim == 11
MaxIdLen == 11

(***************************************************************************)
(* Optional values                                                         *)
(***************************************************************************)
None == <<>>
Some(v) == <<v>>
IsSome(o) == o # <<>>
Val(o) == o[1]

\* JS `x || d` on an optional number: undefined and 0 are falsy
OrNum(o, d) == IF IsSome(o) /\ Val(o) # 0 THEN Val(o) ELSE d

\* JS `x || d` on an optional string (a TLA+ string): undefined and '' are falsy
OrStr(o, d) == IF IsSome(o) /\ Val(o) # "" THEN Val(o) ELSE d

\* JS truthiness of an optional string / optional positive number
TruthyStr(o) == IsSome(o) /\ Val(o) # ""
TruthyNum(o) == IsSome(o) /\ Val(o) # 0

(***************************************************************************)
(* Character strings                                                       *)
(***************************************************************************)
Alphabet == {"a", " ", "<", ">", "{", "}", "[", "]", "(", ")"}

Strings(n) == UNION {[1..k -> Alphabet] : k \in 0..n}

\* The characters of a string literal, one per element
Chars(s) == [i \in 1..Len(s) |-> SubSeq(s, i, i)]

\* The characters that \s and trim() treat as white space, as far as the
\* model's texts contain them
WhiteSpace == {" ", "\t", "\n", "\r"}

RECURSIVE TrimLeft(_)
TrimLeft(s) == IF s = <<>> THEN s
               ELSE IF Head(s) \in WhiteSpace THEN TrimLeft(Tail(s)) ELSE s

RECURSIVE TrimRight(_)
TrimRight(s) == IF s = <<>> THEN s
                ELSE IF s[Len(s)] \in WhiteSpace
                THEN TrimRight(SubSeq(s, 1, Len(s) - 1))
                ELSE s

\* String.prototype.trim
Trim(s) == TrimRight(TrimLeft(s))

\* text.replace(/[chars]/g, '')
Strip(s, chars) == SelectSeq(s, LAMBDA c : c \notin chars)

(***************************************************************************)
(* Query builder (SearchService)                                           *)
(***************************************************************************)
\* sanitizeSearchText: three character-class removals, then trim
sanitizeSearchText(text) ==
    Trim(Strip(Strip(Strip(text, {"<", ">"}), {"{", "}", "[", "]"}), {"(", ")"}))

MultiMatchFields == <<"suchtext^3", "title^2", "description^1.5", "fotografen^1">>

multi_match(searchText) ==
    [clause |-> "multi_match", query |-> searchText, fields |-> MultiMatchFields,
     type |-> "best_fields", fuzziness |-> "AUTO", operator |-> "and",
     minimum_should_match |-> "75%"]

match_all == [clause |-> "match_all"]

term(field, value) == [clause |-> "term", field |-> field, value |-> value]

terms(field, values) == [clause |-> "terms", field |-> field, values |-> values]

\* A range object receives gte / lte only for a truthy bound
rangeStr(field, lo, hi) ==
    [clause |-> "range", field |-> field,
     gte |-> IF TruthyStr(lo) THEN lo ELSE None,
     lte |-> IF TruthyStr(hi) THEN hi ELSE None]

\* A numeric range whose operators are exchanged
rangeNum_swapped(field, lo, hi) ==
    [clause |-> "range", field |-> field,
     gte |-> IF TruthyNum(hi) THEN hi ELSE None,
     lte |-> IF TruthyNum(lo) THEN lo ELSE None]

rangeNum(field, lo, hi) ==
    [clause |-> "range", field |-> field,
     gte |-> IF TruthyNum(lo) THEN lo ELSE None,
     lte |-> IF TruthyNum(hi) THEN hi ELSE None]

\* `query.q && query.q.trim()`
HasText(q) == IsSome(q) /\ Val(q) # <<>> /\ Trim(Val(q)) # <<>>

buildMust(q) ==
    IF HasText(q)
    THEN <<multi_match(sanitizeSearchText(Trim(Val(q))))>>
    ELSE <<match_all>>

buildFilter(rq) ==
    (IF TruthyStr(rq.photographer)
       THEN <<term("fotografen.keyword", Val(rq.photographer))>> ELSE <<>>)
    \o (IF TruthyStr(rq.dateFrom) \/ TruthyStr(rq.dateTo)
       THEN <<rangeStr("datum", rq.dateFrom, rq.dateTo)>> ELSE <<>>)
    \o (IF TruthyNum(rq.minWidth) \/ TruthyNum(rq.maxWidth)
       THEN <<rangeNum("breite", rq.minWidth, rq.maxWidth)>> ELSE <<>>)
    \o (IF TruthyNum(rq.minHeight) \/ TruthyNum(rq.maxHeight)
       THEN <<rangeNum("hoehe", rq.minHeight, rq.maxHeight)>> ELSE <<>>)
    \o (IF TruthyStr(rq.db) THEN <<term("db", Val(rq.db))>> ELSE <<>>)
    \o (IF IsSome(rq.imageIds) /\ Len(Val(rq.imageIds)) > 0
       THEN <<terms("bildnummer", Val(rq.imageIds))>> ELSE <<>>)

buildElasticsearchQuery(rq) ==
    [must |-> buildMust(rq.q), filter |-> buildFilter(rq)]

\* enum SortField and enum SortOrder of the request DTO
SortField ==
    [RELEVANCE |-> "_score", DATE |-> "datum", IMAGE_ID |-> "bildnummer",
     WIDTH |-> "breite", HEIGHT |-> "hoehe"]

SortFields == {SortField[k] : k \in DOMAIN SortField}

SortOrders == {"asc", "desc"}

sortKey(field, order) == [field |-> field, order |-> order]

\* A sort that appends the tie-break unconditionally
buildSort_alwaysTieBreak(sortBy, sortOrder) ==
    LET order == IF sortOrder \in SortOrders THEN sortOrder ELSE "desc"
        first == IF sortBy \in SortFields
                 THEN sortKey(sortBy, order)
                 ELSE sortKey("_score", "desc")
    IN  <<first, sortKey("bildnummer", "asc")>>

buildSort(sortBy, sortOrder) ==
    LET order == IF sortOrder \in SortOrders THEN sortOrder ELSE "desc"
        first == IF sortBy \in SortFields
                 THEN sortKey(sortBy, order)
                 ELSE sortKey("_score", "desc")
    IN  IF sortBy # "bildnummer"
        THEN <<first, sortKey("bildnummer", "asc")>>
        ELSE <<first>>

buildHighlight ==
    [suchtext |-> [fragment_size |-> 150, number_of_fragments |-> 3],
     title |-> [fragment_size |-> 100, number_of_fragments |-> 1],
     description |-> [fragment_size |-> 200, number_of_fragments |-> 2],
     pre_tags |-> <<"<em>">>, post_tags |-> <<"</em>">>]

\* Parameters of the two adapter calls issued by search()
searchParams(rq) ==
    [op |-> "search", index |-> "imago",
     query |-> buildElasticsearchQuery(rq),
     size |-> rq.size, from |-> rq.from,
     sort |-> buildSort(OrStr(rq.sortBy, "_score"), OrStr(rq.sortOrder, "desc")),
     highlight |-> IF rq.highlight THEN Some(buildHighlight) ELSE None]

facetAggs ==
    [photographers |-> [agg |-> "terms", field |-> "fotografen.keyword", size |-> 20],
     databases |-> [agg |-> "terms", field |-> "db", size |-> 10],
     dimensions |-> [agg |-> "stats", field |-> "breite"],
     heights |-> [agg |-> "stats", field |-> "hoehe"],
     date_range |-> [agg |-> "date_histogram", field |-> "datum",
                     calendar_interval |-> "year"]]

aggregateParams(rq) ==
    [op |-> "aggregate", index |-> "imago", aggs |-> facetAggs,
     query |-> buildElasticsearchQuery(rq)]

(***************************************************************************)
(* Engine errors and the adapter's classification (ElasticsearchService)   *)
(***************************************************************************)
\* Status codes an engine ResponseError may carry
ResponseStatuses == {400, 401, 404, 429, 500, 503}

\* meta.body of a ResponseError: without an `error` member, with an `error`
\* member that has no `type`, or with a typed `error`
ResponseBodies ==
    {[hasError |-> FALSE, type |-> None],
     [hasError |-> TRUE, type |-> None],
     [hasError |-> TRUE, type |-> Some("parsing_exception")]}

ConnectionError ==
    [cls |-> "ConnectionError", statusCode |-> 0,
     body |-> [hasError |-> FALSE, type |-> None], message |-> "connect ECONNREFUSED"]

RequestAbortedError ==
    [cls |-> "RequestAbortedError", statusCode |-> 0,
     body |-> [hasError |-> FALSE, type |-> None], message |-> "Request aborted"]

\* Anything else thrown inside an adapter try block (TypeError, plain Error)
OtherError ==
    [cls |-> "Error", statusCode |-> 0,
     body |-> [hasError |-> FALSE, type |-> None], message |-> "Unknown error"]

ResponseError(status, body) ==
    [cls |-> "ResponseError", statusCode |-> status, body |-> body,
     message |-> "engine response error"]

EngineErrors ==
    {ConnectionError, RequestAbortedError, OtherError}
    \cup {ResponseError(st, b) : st \in ResponseStatuses, b \in ResponseBodies}

\* HttpException.getStatus() of the framework exceptions the code throws
getStatus(name) ==
    CASE name = "BadRequestException" -> 400
      [] name = "NotFoundException" -> 404
      [] name = "RequestTimeoutException" -> 408
      [] name = "InternalServerErrorException" -> 500
      [] name = "ServiceUnavailableException" -> 503

HttpException(name, message, detail) ==
    [name |-> name, status |-> getStatus(name), message |-> message,
     detail |-> detail]

\* A switch that lacks the 400 case
responseErrorException_no400(error) ==
    CASE error.statusCode = 404 ->
            HttpException("InternalServerErrorException",
                          "Elasticsearch index not found", None)
      [] error.statusCode \in {429, 503} ->
            HttpException("ServiceUnavailableException",
                          "Elasticsearch service is temporarily unavailable", None)
      [] OTHER ->
            HttpException("InternalServerErrorException",
                          "Elasticsearch operation failed: ", Some(error.message))

\* switch (error.statusCode) of a ResponseError
responseErrorException(error) ==
    CASE error.statusCode = 400 ->
            HttpException("InternalServerErrorException",
                          "Invalid Elasticsearch query: ",
                          IF error.body.hasError
                          THEN error.body.type
                          ELSE Some(error.message))
      [] error.statusCode = 404 ->
            HttpException("InternalServerErrorException",
                          "Elasticsearch index not found", None)
      [] error.statusCode = 429 ->
            HttpException("ServiceUnavailableException",
                          "Elasticsearch service is overloaded, please try again later",
                          None)
      [] error.statusCode = 503 ->
            HttpException("ServiceUnavailableException",
                          "Elasticsearch service is temporarily unavailable", None)
      [] OTHER ->
            HttpException("InternalServerErrorException",
                          "Elasticsearch operation failed: ", Some(error.message))

\* A classifier without the RequestAbortedError branch
handleElasticsearchError_noAbortBranch(error) ==
    IF error.cls = "ConnectionError"
    THEN HttpException("ServiceUnavailableException",
                       "Elasticsearch service is temporarily unavailable", None)
    ELSE IF error.cls = "ResponseError"
    THEN responseErrorException(error)
    ELSE HttpException("InternalServerErrorException",
                       "An unexpected error occurred while accessing search data", None)

\* A classifier without the ConnectionError branch
handleElasticsearchError_noConnectionBranch(error) ==
    IF error.cls = "ResponseError"
    THEN responseErrorException(error)
    ELSE IF error.cls = "RequestAbortedError"
    THEN HttpException("RequestTimeoutException",
                       "Elasticsearch request timed out", None)
    ELSE HttpException("InternalServerErrorException",
                       "An unexpected error occurred while accessing search data", None)

handleElasticsearchError(error) ==
    IF error.cls = "ConnectionError"
    THEN HttpException("ServiceUnavailableException",
                       "Elasticsearch service is temporarily unavailable", None)
    ELSE IF error.cls = "ResponseError"
    THEN responseErrorException(error)
    ELSE IF error.cls = "RequestAbortedError"
    THEN HttpException("RequestTimeoutException",
                       "Elasticsearch request timed out", None)
    ELSE HttpException("InternalServerErrorException",
                       "An unexpected error occurred while accessing search data", None)

(***************************************************************************)
(* Promises and adapter operations                                         *)
(***************************************************************************)
NoPromise == [state |-> "none", value |-> None, error |-> None]
Pending == [state |-> "pending", value |-> None, error |-> None]
Fulfilled(v) == [state |-> "fulfilled", value |-> v, error |-> None]
Rejected(e) == [state |-> "rejected", value |-> None, error |-> Some(e)]

AdapterOps ==
    {"search", "get", "mget", "count", "aggregate", "getMapping",
     "getIndexStats", "indexExists"}

\* What the engine client does with one request: resolve with a payload or
\* throw an error
EngineOk(payload) == [ok |-> TRUE, payload |-> Some(payload), error |-> None]
EngineFails(err) == [ok |-> FALSE, payload |-> None, error |-> Some(err)]

\* The adapter's search request: size and from default when undefined
engineSearchRequest(params) ==
    [op |-> "search", index |-> params.index,
     size |-> IF IsSome(params.size) THEN Val(params.size) ELSE 10,
     from |-> IF IsSome(params.from) THEN Val(params.from) ELSE 0,
     query |-> params.query, sort |-> params.sort,
     highlight |-> params.highlight]

\* The adapter's aggregation request: no documents, only aggregations
engineAggregateRequest(params) ==
    [op |-> "aggregate", index |-> params.index, size |-> 0,
     aggs |-> params.aggs, query |-> params.query]

engineGetRequest(index, id) == [op |-> "get", index |-> index, id |-> id]

\* The value an adapter operation returns for a resolved engine call
adapterValue(op, payload) ==
    CASE op = "search" ->
            Some([total |-> payload.total, hits |-> payload.hits,
                  aggregations |-> None, took |-> payload.took])
      [] op = "aggregate" -> payload.aggregations
      [] op = "count" -> Some(payload.count)
      [] OTHER -> Some(payload)

\* try { return await client.op(...) } catch (error) { ... }: get answers a
\* 404 ResponseError with null, everything else goes through the classifier
adapterSettle(op, outcome) ==
    IF outcome.ok
    THEN Fulfilled(adapterValue(op, Val(outcome.payload)))
    ELSE LET err == Val(outcome.error)
         IN  IF op = "get" /\ err.cls = "ResponseError" /\ err.statusCode = 404
             THEN Fulfilled(None)
             ELSE Rejected(handleElasticsearchError(err))

(***************************************************************************)
(* Queries handed to the adapter by its callers, and sanitizeQuery         *)
(***************************************************************************)
\* A JSON value with its JavaScript type: a string (its characters), a
\* number, an array (its items) or an object (its entries, in key order)
JStr(chars) == [t |-> "string", chars |-> chars]
JNum(n) == [t |-> "number", n |-> n]
JArr(items) == [t |-> "array", items |-> items]
JObj(entries) == [t |-> "object", entries |-> entries]
Entry(key, value) == [key |-> key, value |-> value]

\* str.replace(specialChars, '\\$&') with the special characters of
\* /[+\-&|!(){}[\]^"~*?:\\]/
RECURSIVE escapeQueryString(_)
escapeQueryString(str) ==
    LET specialChars ==
            {"+", "-", "&", "|", "!", "(", ")", "{", "}", "[", "]", "^", "\"",
             "~", "*", "?", ":", "\\"}
    IN  IF str = <<>> THEN <<>>
        ELSE (IF Head(str) \in specialChars THEN <<"\\", Head(str)>>
              ELSE <<Head(str)>>) \o escapeQueryString(Tail(str))

\* sanitizeQuery under the NODE_ENV it reads from the process environment
RECURSIVE sanitizeQuery(_, _)
sanitizeQuery(q, env) ==
    CASE q.t = "string" ->
            JObj(<<Entry("match",
                     JObj(<<Entry("_all", JStr(escapeQueryString(q.chars)))>>))>>)
      [] q.t = "array" ->
            JArr([i \in 1..Len(q.items) |-> sanitizeQuery(q.items[i], env)])
      [] q.t = "object" ->
            LET dangerousQueries == {"script", "script_score", "function_score"}
                kept == SelectSeq(q.entries,
                            LAMBDA e : ~(env = "production"
                                         /\ e.key \in dangerousQueries))
                escaped(key) == key \in {"query", "value"}
                item(key, v) ==
                    IF v.t = "string" /\ escaped(key)
                    THEN JStr(escapeQueryString(v.chars))
                    ELSE IF v.t \in {"object", "array"}
                    THEN sanitizeQuery(v, env)
                    ELSE v
                value(key, v) ==
                    CASE v.t = "string" ->
                            IF escaped(key) THEN JStr(escapeQueryString(v.chars))
                            ELSE v
                      [] v.t = "array" ->
                            JArr([i \in 1..Len(v.items) |-> item(key, v.items[i])])
                      [] v.t = "object" -> sanitizeQuery(v, env)
                      [] OTHER -> v
            IN  JObj([i \in 1..Len(kept) |->
                         Entry(kept[i].key, value(kept[i].key, kept[i].value))])
      [] OTHER -> q

QueryOps == {"search", "count", "aggregate"}

\* What search, count and aggregate hand to the engine client for a query:
\* the query itself when it is truthy ("Temporarily bypass sanitization");
\* only the empty string is falsy among the JSON values
adapterRequest(op, q) ==
    LET passed == IF q.t = "string" /\ q.chars = <<>> THEN None ELSE Some(q)
    IN  CASE op = "search" ->
                [op |-> op, index |-> "imago", size |-> 10, from |-> 0,
                 query |-> passed]
          [] op = "count" -> [op |-> op, index |-> "imago", query |-> passed]
          [] op = "aggregate" ->
                [op |-> op, index |-> "imago", size |-> 0, aggs |-> facetAggs,
                 query |-> passed]

(***************************************************************************)
(* Engine responses                                                        *)
(***************************************************************************)
\* A stored document (MediaSourceData); title and description are often
\* missing in real data
DefaultDoc ==
    [bildnummer |-> Chars("258999077"), datum |-> "2023-08-15T10:30:00.000Z",
     suchtext |-> Some(Chars("Berg Landschaft Natur")),
     fotografen |-> "ABACAPRESS", hoehe |-> 1080, breite |-> 1920,
     db |-> Chars("st"), title |-> None, description |-> None]

\* The i-th hit of an engine response, best score first; every second
\* document carries its own title and description
Hit(i) ==
    LET HitIds == <<"258999077", "123456", "1234567890", "42">>
        id == Chars(HitIds[((i - 1) % Len(HitIds)) + 1])
    IN  [_id |-> id, _score |-> MaxHits + 1 - i,
         _source |->
            [DefaultDoc EXCEPT
                !.bildnummer = id,
                !.suchtext = Some(Chars("Berg")),
                !.title = IF i % 2 = 0 THEN Some(Chars("Alps")) ELSE None,
                !.description = IF i % 2 = 0 THEN Some(Chars("Peak")) ELSE None],
         highlight |-> IF i % 2 = 1 THEN Some("<em>berg</em>") ELSE None]

Hits(n) == [i \in 1..n |-> Hit(i)]

NoAggs ==
    [photographers |-> None, databases |-> None, dimensions |-> None,
     heights |-> None, date_range |-> None]

DatabaseBuckets == <<[key |-> "st", doc_count |-> 4]>>

\* A full aggregation response; avg10 of a stats aggregation is the average
\* in tenths
FullAggs ==
    LET PhotographerBuckets ==
            <<[key |-> "ABACAPRESS", doc_count |-> 3],
              [key |-> "IMAGO", doc_count |-> 1]>>
        WidthStats == [min |-> Some(640), max |-> Some(1920), avg10 |-> Some(12805)]
        HeightStats == [min |-> None, max |-> Some(1080), avg10 |-> None]
    IN  [photographers |-> Some([buckets |-> Some(PhotographerBuckets)]),
         databases |-> Some([buckets |-> Some(DatabaseBuckets)]),
         dimensions |-> Some(WidthStats), heights |-> Some(HeightStats),
         date_range |-> Some([buckets |-> Some(<<"2019", "2021", "2023">>)])]

\* hits.total comes as a number or as { value, relation }
SearchOutcomes ==
    LET Totals == 0..MaxTotal \cup {1543}
        SearchPayloads ==
            {[total |-> [form |-> f, value |-> t], hits |-> Hits(n), took |-> 45] :
                f \in {"object", "number"}, t \in Totals, n \in 0..MaxHits}
    IN  {EngineOk(p) : p \in SearchPayloads}
        \cup {EngineFails(e) : e \in EngineErrors}

\* Aggregation responses, also with missing or malformed parts
AggregateOutcomes ==
    LET AggResponses ==
            {NoAggs, FullAggs,
             [FullAggs EXCEPT !.photographers = Some([buckets |-> None]),
                              !.heights = None,
                              !.date_range = Some([buckets |-> Some(<<>>)])],
             [NoAggs EXCEPT !.databases = Some([buckets |-> Some(DatabaseBuckets)]),
                            !.date_range = Some([buckets |-> None])]}
        AggregatePayloads ==
            {[aggregations |-> None]}
            \cup {[aggregations |-> Some(a)] : a \in AggResponses}
    IN  {EngineOk(p) : p \in AggregatePayloads}
        \cup {EngineFails(e) : e \in EngineErrors}

(***************************************************************************)
(* Text normalizer (SearchService.cleanText, generateTitle,                *)
(* generateDescription, detectLanguage)                                    *)
(***************************************************************************)
\* U+FFFD, the replacement character, and U+2B26, as single characters
FFFD == "U+FFFD"
Diamond == "U+2B26"

UpperCase == Chars("ABCDEFGHIJKLMNOPQRSTUVWXYZ")
LowerCase == Chars("abcdefghijklmnopqrstuvwxyz")

\* String.prototype.toLowerCase / toUpperCase, one character at a time
toLowerCase(s) ==
    [i \in 1..Len(s) |->
        IF \E k \in 1..Len(UpperCase) : UpperCase[k] = s[i]
        THEN LowerCase[CHOOSE k \in 1..Len(UpperCase) : UpperCase[k] = s[i]]
        ELSE s[i]]

toUpperCase(s) ==
    [i \in 1..Len(s) |->
        IF \E k \in 1..Len(LowerCase) : LowerCase[k] = s[i]
        THEN UpperCase[CHOOSE k \in 1..Len(LowerCase) : LowerCase[k] = s[i]]
        ELSE s[i]]

\* s.includes(p)
Includes(s, p) == \E i \in 1..(Len(s) - Len(p) + 1) : SubSeq(s, i, i + Len(p) - 1) = p

\* s.indexOf(pat), counted from 1: 0 when pat does not occur in s
IndexOf(s, pat) ==
    IF Includes(s, pat)
    THEN CHOOSE i \in 1..(Len(s) - Len(pat) + 1) :
            /\ SubSeq(s, i, i + Len(pat) - 1) = pat
            /\ \A j \in 1..(i - 1) : SubSeq(s, j, j + Len(pat) - 1) # pat
    ELSE 0

\* s.replace(/pat/g, rep) for a literal pattern: the matches are taken from
\* left to right, each after the end of the one before it
RECURSIVE ReplaceAll(_, _, _)
ReplaceFrom(s, pat, rep, i) ==
    IF i = 0 THEN s
    ELSE SubSeq(s, 1, i - 1) \o rep
         \o ReplaceAll(SubSeq(s, i + Len(pat), Len(s)), pat, rep)

ReplaceAll(s, pat, rep) == ReplaceFrom(s, pat, rep, IndexOf(s, pat))

\* The agency names of the copyright pattern, lower-cased (the pattern is
\* case-insensitive)
Agencies == {Chars("abacapress"), Chars("imago"), Chars("getty images")}

\* Characters that `.` does not match
LineTerminators == {"\n", "\r"}

AgenciesAt(s, j) ==
    {a \in Agencies : /\ j + Len(a) - 1 <= Len(s)
                      /\ toLowerCase(SubSeq(s, j, j + Len(a) - 1)) = a}

\* Length of the match of /\uFFFD.*?(ABACAPRESS|IMAGO|Getty Images)/i that
\* starts at the head of s, 0 when there is none: the lazy `.*?` takes the
\* fewest characters, none of them a line terminator
copyrightMatch(s) ==
    IF s = <<>> \/ Head(s) # FFFD THEN 0
    ELSE LET skips == {k \in 0..Len(s) :
                          /\ AgenciesAt(s, k + 2) # {}
                          /\ \A i \in 2..(k + 1) : s[i] \notin LineTerminators}
         IN  IF skips = {} THEN 0
             ELSE LET k == CHOOSE x \in skips : \A y \in skips : x <= y
                  IN  1 + k + Len(CHOOSE a \in AgenciesAt(s, k + 2) : TRUE)

\* s.replace(/\uFFFD.*?(ABACAPRESS|IMAGO|Getty Images)/gi, ''): lens[j] is the
\* length of the match that starts at j, 0 when none starts there; the first
\* match is cut out and the search goes on behind it
RECURSIVE removeCopyright(_)
removeMatches(s, lens) ==
    IF \A j \in 1..Len(s) : lens[j] = 0 THEN s
    ELSE LET j == CHOOSE x \in 1..Len(s) :
                      lens[x] > 0 /\ \A y \in 1..(x - 1) : lens[y] = 0
         IN  SubSeq(s, 1, j - 1)
             \o removeCopyright(SubSeq(s, j + lens[j], Len(s)))

removeCopyright(s) ==
    removeMatches(s, [j \in 1..Len(s) |-> copyrightMatch(SubSeq(s, j, Len(s)))])

\* s.replace(/\s+/g, ' ')
collapseWhiteSpace(s) ==
    SelectSeq([i \in 1..Len(s) |->
                  IF s[i] \notin WhiteSpace THEN s[i]
                  ELSE IF i < Len(s) /\ s[i + 1] \in WhiteSpace THEN ""
                  ELSE " "],
              LAMBDA c : c # "")

\* A clean that lacks the replacement of the bare U+FFFD
cleanText_keepsMarker(text) ==
    IF ~IsSome(text) \/ Val(text) = <<>> THEN <<>>
    ELSE LET r1 == {ReplaceAll(s, <<"?">>, <<"'">>) : s \in {Val(text)}}
             r2 == {ReplaceAll(s, <<FFFD, "\"">>, <<"'">>) : s \in r1}
             r3 == {ReplaceAll(s, <<FFFD, "S">>, <<"\"">>) : s \in r2}
             r5 == {ReplaceAll(s, <<Diamond>>, <<".", ".", ".">>) : s \in r3}
             r6 == {removeCopyright(s) : s \in r5}
             r7 == {Trim(collapseWhiteSpace(s)) : s \in r6}
         IN  CHOOSE s \in r7 : TRUE

\* cleanText on an optional text: the replacements in the order of the code;
\* r1 .. r7 each hold the one text that the step leaves, so that a step works
\* on the finished result of the step before it
cleanText(text) ==
    IF ~IsSome(text) \/ Val(text) = <<>> THEN <<>>
    ELSE LET r1 == {ReplaceAll(s, <<"?">>, <<"'">>) : s \in {Val(text)}}
             r2 == {ReplaceAll(s, <<FFFD, "\"">>, <<"'">>) : s \in r1}
             r3 == {ReplaceAll(s, <<FFFD, "S">>, <<"\"">>) : s \in r2}
             r4 == {ReplaceAll(s, <<FFFD>>, <<"\"">>) : s \in r3}
             r5 == {ReplaceAll(s, <<Diamond>>, <<".", ".", ".">>) : s \in r4}
             r6 == {removeCopyright(s) : s \in r5}
             r7 == {Trim(collapseWhiteSpace(s)) : s \in r6}
         IN  CHOOSE s \in r7 : TRUE

\* s.split(sep) for a one-character separator
RECURSIVE Split(_, _)
Split(s, sep) ==
    IF \E i \in 1..Len(s) : s[i] = sep
    THEN LET i == CHOOSE k \in 1..Len(s) :
                      s[k] = sep /\ \A j \in 1..(k - 1) : s[j] # sep
         IN  <<SubSeq(s, 1, i - 1)>> \o Split(SubSeq(s, i + 1, Len(s)), sep)
    ELSE <<s>>

\* words.join(sep)
RECURSIVE Join(_, _)
Join(words, sep) ==
    IF words = <<>> THEN <<>>
    ELSE IF Len(words) = 1 THEN words[1]
    ELSE words[1] \o sep \o Join(Tail(words), sep)

\* words.slice(0, n), s.substring(0, n)
Take(s, n) == SubSeq(s, 1, IF n < Len(s) THEN n ELSE Len(s))

UntitledImage == Chars("Untitled Image")
NoDescription == Chars("No description available")

\* `existing && existing.trim()`
HasContent(existing) == IsSome(existing) /\ Trim(Val(existing)) # <<>>

\* A title built from the first six tokens whatever their length
generateTitle_noFilter(existingTitle, cleanedText) ==
    IF HasContent(existingTitle) THEN cleanText(existingTitle)
    ELSE LET words == Split(cleanedText, " ")
             titleWords == Take(words, 6)
             joined == Join(titleWords, <<" ">>)
             title == IF joined # <<>>
                      THEN toUpperCase(<<Head(joined)>>) \o Tail(joined)
                      ELSE joined
         IN  IF title # <<>> THEN title ELSE UntitledImage

generateTitle(existingTitle, cleanedText) ==
    IF HasContent(existingTitle) THEN cleanText(existingTitle)
    ELSE LET words == SelectSeq(Split(cleanedText, " "), LAMBDA word : Len(word) > 2)
             titleWords == Take(words, 6)
             joined == Join(titleWords, <<" ">>)
             title == IF joined # <<>>
                      THEN toUpperCase(<<Head(joined)>>) \o Tail(joined)
                      ELSE joined
         IN  IF title # <<>> THEN title ELSE UntitledImage

generateDescription(existingDescription, cleanedText) ==
    IF HasContent(existingDescription) THEN cleanText(existingDescription)
    ELSE LET description == IF Len(cleanedText) > 200
                            THEN Take(cleanedText, 200) \o <<".", ".", ".">>
                            ELSE cleanedText
         IN  IF description # <<>> THEN description ELSE NoDescription

\* \w of a regular expression without the u flag
WordChars ==
    {UpperCase[i] : i \in 1..Len(UpperCase)} \cup {LowerCase[i] : i \in 1..Len(LowerCase)}
    \cup {"0", "1", "2", "3", "4", "5", "6", "7", "8", "9", "_"}

\* The maximal runs of word characters of s, in order
RECURSIVE wordRuns(_)
wordRuns(s) ==
    IF s = <<>> THEN <<>>
    ELSE IF Head(s) \notin WordChars THEN wordRuns(Tail(s))
    ELSE LET n == CHOOSE k \in 1..Len(s) :
                      /\ \A i \in 1..k : s[i] \in WordChars
                      /\ k = Len(s) \/ s[k + 1] \notin WordChars
         IN  <<SubSeq(s, 1, n)>> \o wordRuns(SubSeq(s, n + 1, Len(s)))

germanWords ==
    {Chars(w) : w \in {"und", "der", "die", "das", "ein", "eine", "mit", "von",
                       "zu", "auf", "ist", "sind", "haben", "werden", "oder", "aber"}}

englishWords ==
    {Chars(w) : w \in {"and", "the", "of", "a", "an", "with", "from", "to",
                       "on", "is", "are", "have", "will", "or", "but"}}

\* (text.match(/\b(w1|w2|...)\b/gi) || []).length: between two \b the
\* alternation matches exactly a whole run of word characters
countMatches(text, words) ==
    LET runs == wordRuns(text)
    IN  Cardinality({i \in 1..Len(runs) : toLowerCase(runs[i]) \in words})

\* A detection by plain majority
detectLanguage_majority(text) ==
    IF text = <<>> THEN "unknown"
    ELSE LET germanMatches == countMatches(text, germanWords)
             englishMatches == countMatches(text, englishWords)
         IN  IF germanMatches > englishMatches THEN "de"
             ELSE IF englishMatches > germanMatches THEN "en"
             ELSE "mixed"

\* g > e * 1.5 is 2g > 3e on the small counts of the model
detectLanguage(text) ==
    IF text = <<>> THEN "unknown"
    ELSE LET germanMatches == countMatches(text, germanWords)
             englishMatches == countMatches(text, englishWords)
         IN  IF 2 * germanMatches > 3 * englishMatches THEN "de"
             ELSE IF 2 * englishMatches > 3 * germanMatches THEN "en"
             ELSE "mixed"

(***************************************************************************)
(* Orientation and image URL (SearchService)                               *)
(***************************************************************************)
Abs(x) == IF x < 0 THEN -x ELSE x

\* An aspect ratio breite / hoehe is kept as the pair [num, den] of its
\* operands.  Math.abs(aspectRatio - 1) < 0.1 on IEEE-754 doubles: the double
\* 0.1 lies above 1/10 and the double nearest 9/10 lies above 9/10, so the
\* difference computed for a ratio of exactly 9/10 is 0.09999999999999998 and
\* passes the test; the double nearest 11/10 lies above 11/10, so the
\* difference computed for a ratio of exactly 11/10 is 0.10000000000000009
\* and fails it.  Every other ratio of two 32-bit integers is further from
\* the threshold than the rounding error, so the test agrees with the exact
\* comparison there.
IsSquare(aspectRatio) ==
    \/ 10 * Abs(aspectRatio.num - aspectRatio.den) < aspectRatio.den
    \/ 10 * aspectRatio.num = 9 * aspectRatio.den

determineOrientation(aspectRatio) ==
    IF IsSquare(aspectRatio) THEN "square"
    ELSE IF aspectRatio.num > aspectRatio.den THEN "landscape"
    ELSE "portrait"

\* The default of app.baseImageUrl
baseImageUrl == Chars("https://www.imago-images.de")

\* A padding that also cuts longer strings to the target length
padStart_truncating(s, targetLength, fill) ==
    IF Len(s) >= targetLength THEN SubSeq(s, 1, targetLength)
    ELSE [i \in 1..(targetLength - Len(s)) |-> fill] \o s

\* String.prototype.padStart with a one-character filler
padStart(s, targetLength, fill) ==
    IF Len(s) >= targetLength THEN s
    ELSE [i \in 1..(targetLength - Len(s)) |-> fill] \o s

buildImageUrl(db, bildnummer) ==
    baseImageUrl \o Chars("/bild/") \o db \o <<"/">>
        \o padStart(bildnummer, 10, "0") \o Chars("/s.jpg")

(***************************************************************************)
(* Result transformer, metadata, facets and stats (SearchService)          *)
(***************************************************************************)
transformMediaItem(hit, includeHighlights) ==
    LET source == hit._source
        cleanedText == cleanText(source.suchtext)
        imageUrl == buildImageUrl(source.db, source.bildnummer)
        aspectRatio == [num |-> source.breite, den |-> source.hoehe]
    IN  [id |-> hit._id, bildnummer |-> source.bildnummer,
         title |-> generateTitle(source.title, cleanedText),
         description |-> generateDescription(source.description, cleanedText),
         searchText |-> source.suchtext, photographer |-> source.fotografen,
         date |-> source.datum, width |-> source.breite, height |-> source.hoehe,
         database |-> source.db, imageUrl |-> imageUrl, thumbnailUrl |-> imageUrl,
         score |-> hit._score, aspectRatio |-> aspectRatio,
         orientation |-> determineOrientation(aspectRatio),
         language |-> detectLanguage(cleanedText), cleanedText |-> cleanedText,
         highlights |-> IF includeHighlights /\ IsSome(hit.highlight)
                        THEN hit.highlight ELSE None]

\* A transform that answers the items in reverse order
transformSearchResults_reversed(hits, includeHighlights) ==
    [i \in 1..Len(hits) |->
        transformMediaItem(hits[Len(hits) + 1 - i], includeHighlights)]

transformSearchResults(hits, includeHighlights) ==
    [i \in 1..Len(hits) |-> transformMediaItem(hits[i], includeHighlights)]

\* Math.ceil(a / b) for a >= 0, b > 0
Ceil(a, b) == (a + b - 1) \div b

\* Metadata whose page number is zero-based
buildMetadata_zeroBasedPage(searchResponse, rq, took) ==
    LET total == searchResponse.total.value
        from == OrNum(rq.from, 0)
        size == OrNum(rq.size, 20)
        count == Len(searchResponse.hits)
    IN  [total |-> total, count |-> count, from |-> from, size |-> size,
         took |-> took, hasMore |-> (from + count < total),
         page |-> from \div size, totalPages |-> Ceil(total, size)]

\* Metadata whose hasMore also holds when the page ends exactly at the total
buildMetadata_hasMoreAtEnd(searchResponse, rq, took) ==
    LET total == searchResponse.total.value
        from == OrNum(rq.from, 0)
        size == OrNum(rq.size, 20)
        count == Len(searchResponse.hits)
    IN  [total |-> total, count |-> count, from |-> from, size |-> size,
         took |-> took, hasMore |-> (from + count <= total),
         page |-> (from \div size) + 1, totalPages |-> Ceil(total, size)]

buildMetadata(searchResponse, rq, took) ==
    LET total == searchResponse.total.value
        from == OrNum(rq.from, 0)
        size == OrNum(rq.size, 20)
        count == Len(searchResponse.hits)
    IN  [total |-> total, count |-> count, from |-> from, size |-> size,
         took |-> took, hasMore |-> (from + count < total),
         page |-> (from \div size) + 1, totalPages |-> Ceil(total, size)]

\* getFacets without its catch block
getFacets_noCatch(outcome) ==
    LET r == adapterSettle("aggregate", outcome)
    IN  IF r.state = "fulfilled" /\ ~IsSome(r.value)
        THEN Fulfilled(Some(NoAggs))
        ELSE r

\* try { return (await aggregate(...)) || {} } catch { return {} }
getFacets(outcome) ==
    LET r == adapterSettle("aggregate", outcome)
    IN  IF r.state = "fulfilled" /\ IsSome(r.value)
        THEN Fulfilled(r.value)
        ELSE Fulfilled(Some(NoAggs))

bucketValues(buckets) ==
    [i \in 1..Len(buckets) |->
        [value |-> buckets[i].key, count |-> buckets[i].doc_count]]

HasBuckets(agg) == IsSome(agg) /\ IsSome(Val(agg).buckets)

buildFacets(aggregations) ==
    (IF HasBuckets(aggregations.photographers)
       THEN <<[name |-> "photographers",
               values |-> bucketValues(Val(Val(aggregations.photographers).buckets))]>>
       ELSE <<>>)
    \o (IF HasBuckets(aggregations.databases)
       THEN <<[name |-> "databases",
               values |-> bucketValues(Val(Val(aggregations.databases).buckets))]>>
       ELSE <<>>)

\* Math.round of a non-negative number given in tenths
Round10(x10) == (x10 + 5) \div 10

statOf(st) ==
    [min |-> OrNum(st.min, 0), max |-> OrNum(st.max, 0),
     avg |-> Round10(OrNum(st.avg10, 0))]

buildStats(aggregations) ==
    [dimensions |->
        IF IsSome(aggregations.dimensions) /\ IsSome(aggregations.heights)
        THEN Some([width |-> statOf(Val(aggregations.dimensions)),
                   height |-> statOf(Val(aggregations.heights))])
        ELSE None,
     dateRange |->
        IF HasBuckets(aggregations.date_range)
           /\ Len(Val(Val(aggregations.date_range).buckets)) > 0
        THEN LET buckets == Val(Val(aggregations.date_range).buckets)
             IN  Some([earliest |-> buckets[1], latest |-> buckets[Len(buckets)]])
        ELSE None]

photoTerms ==
    <<Chars("landscape"), Chars("portrait"), Chars("nature"), Chars("wildlife"),
      Chars("architecture"), Chars("street photography"), Chars("macro"),
      Chars("sunset"), Chars("sunrise"), Chars("mountain"), Chars("ocean"),
      Chars("forest"), Chars("city"), Chars("people"), Chars("sport"),
      Chars("event")>>

\* Suggestions that stop at a total of 10 already
getSuggestions_from10(rq, totalResults) ==
    IF totalResults >= 10 THEN <<>>
    ELSE LET matching ==
                 IF IsSome(rq.q) /\ Val(rq.q) # <<>>
                 THEN LET queryLower == toLowerCase(Val(rq.q))
                      IN  Take(SelectSeq(photoTerms,
                                   LAMBDA t : \/ Includes(t, queryLower)
                                              \/ Includes(queryLower, t)), 3)
                 ELSE <<>>
         IN  IF Len(matching) = 0 THEN Take(photoTerms, 5) ELSE matching

getSuggestions(rq, totalResults) ==
    IF totalResults > 10 THEN <<>>
    ELSE LET matching ==
                 IF IsSome(rq.q) /\ Val(rq.q) # <<>>
                 THEN LET queryLower == toLowerCase(Val(rq.q))
                      IN  Take(SelectSeq(photoTerms,
                                   LAMBDA t : \/ Includes(t, queryLower)
                                              \/ Includes(queryLower, t)), 3)
                 ELSE <<>>
         IN  IF Len(matching) = 0 THEN Take(photoTerms, 5) ELSE matching

\* Warnings that report every count, the zero ones too
detectWarnings_reportsZero(results) ==
    LET items == 1..Len(results)
        missingTitles ==
            Cardinality({i \in items : \/ results[i].title = UntitledImage
                                       \/ results[i].title = <<>>})
        encodingIssues ==
            Cardinality({i \in items :
                            \/ Includes(Val(results[i].searchText), <<"?">>)
                            \/ results[i].cleanedText # Val(results[i].searchText)})
        missingDescriptions ==
            Cardinality({i \in items : results[i].description = NoDescription})
        message(count, text) == [count |-> count, of |-> Len(results), text |-> text]
    IN  <<message(missingTitles,
              "results have generated titles due to missing original titles"),
          message(encodingIssues,
              "results had text encoding issues that were automatically corrected"),
          message(missingDescriptions,
              "results have generated descriptions due to missing original descriptions")>>

\* detectWarnings: results.filter(...).length for the three counts; a message
\* `${count} of ${results.length} ${text}` is kept as its numbers and its
\* fixed text
detectWarnings(results) ==
    LET items == 1..Len(results)
        missingTitles ==
            Cardinality({i \in items : \/ results[i].title = UntitledImage
                                       \/ results[i].title = <<>>})
        encodingIssues ==
            Cardinality({i \in items :
                            \/ Includes(Val(results[i].searchText), <<"?">>)
                            \/ results[i].cleanedText # Val(results[i].searchText)})
        missingDescriptions ==
            Cardinality({i \in items : results[i].description = NoDescription})
        message(count, text) == [count |-> count, of |-> Len(results), text |-> text]
    IN  IF Len(results) = 0 THEN <<>>
        ELSE (IF missingTitles > 0
              THEN <<message(missingTitles,
                       "results have generated titles due to missing original titles")>>
              ELSE <<>>)
          \o (IF encodingIssues > 0
              THEN <<message(encodingIssues,
                       "results had text encoding issues that were automatically corrected")>>
              ELSE <<>>)
          \o (IF missingDescriptions > 0
              THEN <<message(missingDescriptions,
                       "results have generated descriptions due to missing original descriptions")>>
              ELSE <<>>)

\* The response search() composes once both calls have settled; the total
\* (a number or { value }) decides on the suggestions, and `warnings` is
\* left undefined when there is none
composeResponse(rq, searchResponse, facetResponse, took) ==
    LET results == transformSearchResults(searchResponse.hits, rq.highlight)
        warnings == detectWarnings(results)
    IN  [results |-> results,
         metadata |-> buildMetadata(searchResponse, rq, took),
         facets |-> buildFacets(facetResponse),
         stats |-> buildStats(facetResponse),
         suggestions |-> getSuggestions(rq, searchResponse.total.value),
         success |-> TRUE,
         warnings |-> IF Len(warnings) > 0 THEN Some(warnings) ELSE None]

\* A TypeError is no HttpException: the exception filter answers 500
TypeError ==
    [name |-> "TypeError", status |-> 500,
     message |-> "Cannot read properties of undefined", detail |-> None]

\* What search() settles to once both calls have resolved: in
\* detectWarnings, item.searchText.includes('?') raises a TypeError when a
\* document has no suchtext
searchCompletion(rq, searchResponse, facetResponse, took) ==
    IF \E i \in 1..Len(searchResponse.hits) :
          ~IsSome(searchResponse.hits[i]._source.suchtext)
    THEN Rejected(TypeError)
    ELSE Fulfilled(Some(composeResponse(rq, searchResponse, facetResponse, took)))

(***************************************************************************)
(* Single-item lookup (SearchService.getMediaItem, SearchController)       *)
(***************************************************************************)
\* `response._id || ''`
OrEmpty(o) == IF IsSome(o) THEN Val(o) ELSE <<>>

\* A lookup that answers null for every failure of the get
getMediaItem_swallows(r) ==
    IF r.state = "rejected" \/ ~IsSome(r.value) THEN Fulfilled(None)
    ELSE LET response == Val(r.value)
         IN  Fulfilled(Some(transformMediaItem(
                 [_id |-> OrEmpty(response._id), _score |-> 1,
                  _source |-> response._source, highlight |-> None], FALSE)))

\* SearchService.getMediaItem applied to the settled adapter get
getMediaItem(r) ==
    IF r.state = "rejected" THEN r
    ELSE IF ~IsSome(r.value) THEN Fulfilled(None)
    ELSE LET response == Val(r.value)
         IN  Fulfilled(Some(transformMediaItem(
                 [_id |-> OrEmpty(response._id), _score |-> 1,
                  _source |-> response._source, highlight |-> None], FALSE)))

\* `!id || id.trim().length === 0`
IsBlankId(id) == id = <<>> \/ Len(Trim(id)) = 0

\* The catch block of SearchController.getMediaItem: BadRequest and NotFound
\* are rethrown, every other error becomes NotFound
controllerCatch(error) ==
    IF error.name \in {"BadRequestException", "NotFoundException"}
    THEN error
    ELSE HttpException("NotFoundException", "Media item not found", None)

\* SearchController.getMediaItem once the service call has settled
controllerGetMediaItem(r) ==
    IF r.state = "rejected" THEN Rejected(controllerCatch(Val(r.error)))
    ELSE IF ~IsSome(r.value)
    THEN Rejected(controllerCatch(
             HttpException("NotFoundException", "Media item not found", None)))
    ELSE r

\* GlobalExceptionFilter / successful reply: the transport status
httpStatus(r) == IF r.state = "rejected" THEN Val(r.error).status ELSE 200

GetIds == {<<>>, <<" ">>, <<"7">>, <<"4", "2">>}

\* The engine finds a stored document, with or without text and title, or
\* fails
GetOutcomes(id) ==
    LET GetDocs ==
            {DefaultDoc,
             [DefaultDoc EXCEPT !.suchtext = None],
             [DefaultDoc EXCEPT !.suchtext = Some(<<>>),
                                !.title = Some(Chars("Existing Title"))]}
        GetPayload(doc) ==
            [_id |-> Some(id), found |-> TRUE,
             _source |-> [doc EXCEPT !.bildnummer = id]]
    IN  {EngineOk(GetPayload(doc)) : doc \in GetDocs}
        \cup {EngineFails(e) : e \in EngineErrors}

(***************************************************************************)
(* MediaService: id validation, image URL, HEAD metadata, enhancement      *)
(***************************************************************************)
\* An id check that does not bound the length
isValidMediaId_noLengthLimit(id) ==
    /\ Len(id) > 0
    /\ \A i \in 1..Len(id) : id[i] \in WordChars \cup {"-"}

\* !!(id && id.length > 0 && id.length <= 50 && /^[a-zA-Z0-9_-]+$/.test(id))
isValidMediaId(id) ==
    /\ id # <<>>
    /\ Len(id) > 0
    /\ Len(id) <= 50
    /\ \A i \in 1..Len(id) : id[i] \in WordChars \cup {"-"}

\* encodeURIComponent: unreserved characters stay, the others of the model's
\* texts become their percent escapes
encodeURIComponent(str) ==
    LET unreserved == WordChars \cup {"-", ".", "!", "~", "*", "'", "(", ")"}
        escape(c) == CASE c = " " -> Chars("%20")
                       [] c = "/" -> Chars("%2F")
                       [] c = "?" -> Chars("%3F")
                       [] c = "@" -> Chars("%40")
                       [] OTHER -> Chars("%25")
        piece(i) == IF str[i] \in unreserved THEN <<str[i]>> ELSE escape(str[i])
        escaped(i) == Cardinality({j \in 1..i : str[j] \notin unreserved})
        \* where the piece of the i-th character ends in the result
        end(i) == i + 2 * escaped(i)
    IN  [p \in 1..end(Len(str)) |->
            LET i == CHOOSE k \in 1..Len(str) : end(k - 1) < p /\ p <= end(k)
            IN  piece(i)[p - end(i - 1)]]

\* The URL of validateAndConstructImageUrl; `new URL(imageUrl)` accepts every
\* URL built on the configured https base, so the method does not throw
validateAndConstructImageUrl(db, bildnummer) ==
    baseImageUrl \o Chars("/bild/") \o encodeURIComponent(db) \o <<"/">>
        \o encodeURIComponent(padStart(bildnummer, 10, "0")) \o Chars("/s.jpg")

\* parseInt(str, 10) of a header value: the leading digits, NaN without them
parseInt(str) ==
    LET digits == Chars("0123456789")
        isDigit(c) == \E d \in 1..10 : digits[d] = c
        valueOf(c) == (CHOOSE d \in 1..10 : digits[d] = c) - 1
        n == IF \E i \in 1..Len(str) : ~isDigit(str[i])
             THEN (CHOOSE i \in 1..Len(str) :
                      ~isDigit(str[i]) /\ \A j \in 1..(i - 1) : isDigit(str[j])) - 1
             ELSE Len(str)
        val[i \in 0..n] == IF i = 0 THEN 0 ELSE 10 * val[i - 1] + valueOf(str[i])
    IN  IF n = 0 THEN [nan |-> TRUE, n |-> 0] ELSE [nan |-> FALSE, n |-> val[n]]

\* A HEAD response as fetch resolves it; a header is absent (null) or a string
HeadResponse(ok, status, statusText, contentType, contentLength, lastModified) ==
    [settled |-> "response", ok |-> ok, status |-> status,
     statusText |-> statusText, contentType |-> contentType,
     contentLength |-> contentLength, lastModified |-> lastModified]

\* fetch rejects: a network failure, or the abort after 5 seconds
HeadFails(message) == [settled |-> "error", message |-> message]

\* One entry of ImageMetadata.errors
ImageError(text, status, detail) ==
    [text |-> text, status |-> status, detail |-> detail]

\* getImageMetadata once fetch has settled: the catch block answers a
\* rejected fetch, so the method never rejects
getImageMetadata(outcome) ==
    IF outcome.settled = "error"
    THEN [isValid |-> FALSE, statusCode |-> None, contentType |-> None,
          contentLength |-> None, lastModified |-> None,
          errors |-> Some(<<ImageError("Network error", 0, outcome.message)>>)]
    ELSE LET contentType == IF TruthyStr(outcome.contentType)
                            THEN outcome.contentType ELSE None
             \* contentType.startsWith('image/')
             isImage(ct) == Len(ct) >= 6 /\ SubSeq(ct, 1, 6) = "image/"
             \* if (contentLengthHeader): '' is falsy, '0' is not
             contentLength == IF IsSome(outcome.contentLength)
                                 /\ Val(outcome.contentLength) # <<>>
                              THEN Some(parseInt(Val(outcome.contentLength)))
                              ELSE None
             \* a number is truthy unless it is 0 or NaN
             truthy(num) == IsSome(num) /\ ~Val(num).nan /\ Val(num).n # 0
             errors ==
                (IF ~outcome.ok
                 THEN <<ImageError("HTTP", outcome.status, outcome.statusText)>>
                 ELSE <<>>)
                \o (IF IsSome(contentType) /\ ~isImage(Val(contentType))
                    THEN <<ImageError("Invalid content type", 0, Val(contentType))>>
                    ELSE <<>>)
                \* metadata.contentLength && metadata.contentLength === 0
                \o (IF truthy(contentLength) /\ Val(contentLength).n = 0
                    THEN <<ImageError("Image file appears to be empty", 0, "")>>
                    ELSE <<>>)
         IN  [isValid |-> outcome.ok, statusCode |-> Some(outcome.status),
              contentType |-> contentType, contentLength |-> contentLength,
              lastModified |-> IF TruthyStr(outcome.lastModified)
                               THEN outcome.lastModified ELSE None,
              errors |-> IF Len(errors) > 0 THEN Some(errors) ELSE None]

\* enhanceMediaItem once the metadata is known: the item with the validated
\* URL, the optional file properties and imageValidation
enhanceMediaItem(mediaItem, metadata) ==
    LET url == validateAndConstructImageUrl(mediaItem.database, mediaItem.bildnummer)
    IN  [item |-> [mediaItem EXCEPT !.imageUrl = url, !.thumbnailUrl = url],
         fileSize |-> metadata.contentLength,
         lastModified |-> metadata.lastModified,
         mimeType |-> metadata.contentType,
         imageValidation |->
            Some([isValid |-> metadata.isValid,
                  statusCode |-> IF IsSome(metadata.statusCode)
                                 THEN Val(metadata.statusCode) ELSE 0,
                  errors |-> IF IsSome(metadata.errors)
                             THEN Val(metadata.errors) ELSE <<>>])]

(***************************************************************************)
(* Requests                                                                *)
(***************************************************************************)
DefaultRequest ==
    [q |-> Some(<<"a">>), size |-> Some(20), from |-> Some(0),
     sortBy |-> None, sortOrder |-> None, photographer |-> None,
     dateFrom |-> None, dateTo |-> None, minWidth |-> None, maxWidth |-> None,
     minHeight |-> None, maxHeight |-> None, db |-> None, imageIds |-> None,
     highlight |-> FALSE]

Opt(S) == {None} \cup {Some(x) : x \in S}

\* Requests that vary pagination
PagingRequests ==
    LET Sizes == 1..MaxSize \cup {20, 100}
        Froms == 0..MaxFrom
    IN  {[DefaultRequest EXCEPT !.size = s, !.from = f, !.highlight = h] :
            s \in Opt(Sizes), f \in Opt(Froms), h \in BOOLEAN}

\* Requests that vary the query text, the sort, or the filters
BuildRequests ==
    {[DefaultRequest EXCEPT !.q = t] : t \in Opt(Strings(MaxQLen))}
    \cup {[DefaultRequest EXCEPT !.sortBy = f, !.sortOrder = o] :
             f \in Opt(SortFields \cup {"relevance"}),
             o \in Opt(SortOrders \cup {""})}
    \cup {[DefaultRequest EXCEPT !.photographer = ph, !.dateFrom = df,
                                 !.dateTo = dt,
                                 !.minWidth = wl, !.maxWidth = wh,
                                 !.minHeight = hl, !.maxHeight = hh,
                                 !.db = d, !.imageIds = ids] :
             ph \in Opt({"", "ABACAPRESS"}), df \in Opt({"2023-01-01"}),
             dt \in Opt({"2023-12-31"}), wl \in Opt({1920}), wh \in Opt({7680}),
             hl \in Opt({1080}), hh \in Opt({4320}), d \in Opt({"st"}),
             ids \in Opt({<<>>, <<"258999077", "123456789">>})}

(***************************************************************************)
(* Actions                                                                 *)
(***************************************************************************)
Init ==
    /\ pc = "idle"
    /\ query = None
    /\ sent = <<>>
    /\ calls = {}
    /\ primary = NoPromise
    /\ facets = NoPromise
    /\ svc = NoPromise
    /\ http = None
    /\ mpc = "idle"
    /\ input = None
    /\ lookups = <<>>
    /\ found = None
    /\ heads = <<>>
    /\ validated = <<>>
    /\ reply = NoPromise
    /\ client = None
    /\ clients = <<>>
    /\ interval = "unset"
    /\ tasks = <<>>
    /\ engine = "up"
    /\ lifecycle = "constructed"

\* search(): build the query and issue the primary search call and the
\* aggregation call, then wait for both (Promise.all)
Search(rq) ==
    /\ pc = "idle"
    /\ pc' = "searching"
    /\ query' = Some(rq)
    /\ sent' = <<engineSearchRequest(searchParams(rq)),
                 engineAggregateRequest(aggregateParams(rq))>>
    /\ primary' = Pending
    /\ facets' = Pending
    /\ UNCHANGED <<calls, svc, http>>
    /\ UNCHANGED <<mediaVars, clientVars>>

\* The engine answers the primary search call and the adapter settles it
PrimarySettles(outcome) ==
    /\ pc = "searching"
    /\ primary.state = "pending"
    /\ primary' = adapterSettle("search", outcome)
    /\ calls' = calls \cup {[op |-> "search", outcome |-> outcome,
                             result |-> adapterSettle("search", outcome)]}
    /\ UNCHANGED <<pc, query, sent, facets, svc, http>>
    /\ UNCHANGED <<mediaVars, clientVars>>

\* The engine answers the aggregation call; getFacets always resolves
FacetsSettle(outcome) ==
    /\ pc \in {"searching", "search_failed"}
    /\ facets.state = "pending"
    /\ facets' = getFacets(outcome)
    /\ calls' = calls \cup {[op |-> "aggregate", outcome |-> outcome,
                             result |-> adapterSettle("aggregate", outcome)]}
    /\ UNCHANGED <<pc, query, sent, primary, svc, http>>
    /\ UNCHANGED <<mediaVars, clientVars>>

\* Promise.all rejects as soon as one of its promises has rejected
SearchRejects ==
    /\ pc = "searching"
    /\ \E p \in {primary, facets} :
          /\ p.state = "rejected"
          /\ svc' = Rejected(Val(p.error))
    /\ pc' = "search_failed"
    /\ UNCHANGED <<query, sent, calls, primary, facets, http>>
    /\ UNCHANGED <<mediaVars, clientVars>>

\* A search that composes its response as soon as the primary call has
\* resolved, with empty aggregations when the aggregation call is still open
Compose_withoutFacets(took) ==
    /\ pc = "searching"
    /\ primary.state = "fulfilled"
    /\ LET facetResponse == IF facets.state = "fulfilled" THEN Val(facets.value)
                            ELSE NoAggs
           completion == searchCompletion(Val(query), Val(primary.value),
                                          facetResponse, took)
       IN  /\ svc' = completion
           /\ pc' = IF completion.state = "fulfilled" THEN "search_done"
                    ELSE "search_failed"
    /\ UNCHANGED <<query, sent, calls, primary, facets, http>>
    /\ UNCHANGED <<mediaVars, clientVars>>

\* Both calls have resolved: transform, build metadata, facets, stats,
\* suggestions and warnings
Compose(took) ==
    /\ pc = "searching"
    /\ primary.state = "fulfilled"
    /\ facets.state = "fulfilled"
    /\ LET completion == searchCompletion(Val(query), Val(primary.value),
                                          Val(facets.value), took)
       IN  /\ svc' = completion
           /\ pc' = IF completion.state = "fulfilled" THEN "search_done"
                    ELSE "search_failed"
    /\ UNCHANGED <<query, sent, calls, primary, facets, http>>
    /\ UNCHANGED <<mediaVars, clientVars>>

\* GET api/search/media/:id with a blank id: BadRequest, no lookup
GetRejectsId(id) ==
    /\ pc = "idle"
    /\ IsBlankId(id)
    /\ pc' = "get_done"
    /\ query' = Some([id |-> id])
    /\ http' = Some(httpStatus(Rejected(controllerCatch(
                   HttpException("BadRequestException",
                                 "Media item ID is required", None)))))
    /\ UNCHANGED <<sent, calls, primary, facets, svc>>
    /\ UNCHANGED <<mediaVars, clientVars>>

\* GET api/search/media/:id: the adapter get is issued
GetStarts(id) ==
    /\ pc = "idle"
    /\ ~IsBlankId(id)
    /\ pc' = "getting"
    /\ query' = Some([id |-> id])
    /\ sent' = <<engineGetRequest("imago", id)>>
    /\ primary' = Pending
    /\ UNCHANGED <<calls, facets, svc, http>>
    /\ UNCHANGED <<mediaVars, clientVars>>

\* The engine answers the get; adapter, service and controller complete
GetSettles(outcome) ==
    /\ pc = "getting"
    /\ primary.state = "pending"
    /\ outcome \in GetOutcomes(Val(query).id)
    /\ pc' = "get_done"
    /\ primary' = adapterSettle("get", outcome)
    /\ calls' = calls \cup {[op |-> "get", outcome |-> outcome,
                             result |-> adapterSettle("get", outcome)]}
    /\ svc' = getMediaItem(adapterSettle("get", outcome))
    /\ http' = Some(httpStatus(controllerGetMediaItem(
                   getMediaItem(adapterSettle("get", outcome)))))
    /\ UNCHANGED <<query, sent, facets>>
    /\ UNCHANGED <<mediaVars, clientVars>>

\* Adapter operations that the search and lookup paths do not use
StandaloneOps == {"mget", "count", "getMapping", "getIndexStats", "indexExists"}

StandaloneOutcomes ==
    {EngineOk([acknowledged |-> TRUE, count |-> 3])}
    \cup {EngineFails(e) : e \in EngineErrors}

AdapterCall(op, outcome) ==
    /\ pc = "idle"
    /\ pc' = "adapter_done"
    /\ calls' = calls \cup {[op |-> op, outcome |-> outcome,
                             result |-> adapterSettle(op, outcome)]}
    /\ UNCHANGED <<query, sent, primary, facets, svc, http>>
    /\ UNCHANGED <<mediaVars, clientVars>>

Tooks == {0, 45}

Next ==
    \/ \E rq \in PagingRequests : Search(rq)
    \/ \E o \in SearchOutcomes : PrimarySettles(o)
    \/ \E o \in AggregateOutcomes : FacetsSettle(o)
    \/ SearchRejects
    \/ \E t \in Tooks : Compose(t)
    \/ \E id \in GetIds : GetRejectsId(id)
    \/ \E id \in GetIds : GetStarts(id)
    \/ \E o \in UNION {GetOutcomes(id) : id \in GetIds} : GetSettles(o)
    \/ \E op \in StandaloneOps, o \in StandaloneOutcomes : AdapterCall(op, o)

Spec == Init /\ [][Next]_vars

\* The query builder on requests that vary text, sort and filters
NextBuild == \E rq \in BuildRequests : Search(rq)

SpecBuild == Init /\ [][NextBuild]_vars

(***************************************************************************)
(* Suggestions: searches that vary the query text and the total            *)
(***************************************************************************)
SuggestRequests ==
    LET SuggestTexts ==
            {<<>>} \cup
            {Chars(t) : t \in {"a", "A", "e", "x", " ", "sun", "SUN", "Sunset",
                               "zz", "city people", "macro lens",
                               "Street Photography",
                               "landscape portrait nature wildlife"}}
    IN  {[DefaultRequest EXCEPT !.q = t] : t \in Opt(SuggestTexts)}

SuggestOutcomes ==
    {EngineOk([total |-> [form |-> f, value |-> t], hits |-> Hits(n), took |-> 45]) :
        f \in {"object", "number"}, t \in 0..MaxSuggestTotal, n \in 0..1}

NoFacetOutcomes == {EngineOk([aggregations |-> None])}

NextSuggest ==
    \/ \E rq \in SuggestRequests : Search(rq)
    \/ \E o \in SuggestOutcomes : PrimarySettles(o)
    \/ \E o \in NoFacetOutcomes : FacetsSettle(o)
    \/ \E t \in Tooks : Compose(t)

SpecSuggest == Init /\ [][NextSuggest]_vars

(***************************************************************************)
(* Result items: searches and lookups that vary the stored documents       *)
(***************************************************************************)
\* Stored documents that vary, one field group at a time, the text (every
\* text of up to MaxTextLen of the characters clean distinguishes, and
\* longer samples), the title and description, the dimensions, and the id
ItemDocs ==
    LET TextAlphabet == {"a", "?", FFFD, "\"", "S", " ", "\n", Diamond}
        Texts == UNION {[1..k -> TextAlphabet] : k \in 0..MaxTextLen}
        Repeat(c, n) == [i \in 1..n |-> c]
        SampleTexts ==
            {Chars(t) : t \in {"one two three four five six seven eight nine ten",
                               "a bc de", "ab  mountain", "Berg",
                               "Berg und Landschaft mit der Natur",
                               "Mountain and landscape with the nature",
                               "und and", "Und DER and", "and The und",
                               "und der die and the", "and the of und der",
                               "a an_d oder,aber"}}
            \cup {Chars("Text with ? and ") \o <<FFFD>> \o Chars(" encoding issues"),
                  Chars("Mountain   landscape  ") \o <<FFFD>>
                      \o Chars("ABACAPRESS  content"),
                  Chars("Foto ") \o <<FFFD>> \o Chars(" Copyright getty images 2023"),
                  <<FFFD>> \o Chars("Imago"),
                  Chars("Foto ") \o <<FFFD>> \o Chars("\nIMAGO"),
                  Repeat("a", 200), Repeat("a", 201),
                  Chars("und ") \o Repeat("a", 199) \o Chars(" the end")}
        DocTitles ==
            {<<>>, Chars("  "), Chars("Existing Title"), Chars(" ? "),
             UntitledImage, NoDescription, <<FFFD>> \o Chars("IMAGO")}
    IN  {[DefaultDoc EXCEPT !.suchtext = t] : t \in Opt(Texts \cup SampleTexts)}
        \cup {[DefaultDoc EXCEPT !.suchtext = Some(t), !.title = ti,
                                 !.description = de] :
                 t \in {<<>>, Chars("?"), Chars("Berg Landschaft Natur")},
                 ti \in Opt(DocTitles), de \in Opt(DocTitles)}
        \cup {[DefaultDoc EXCEPT !.breite = w, !.hoehe = h] :
                 w \in 0..MaxDim, h \in 1..MaxDim}
        \cup {[DefaultDoc EXCEPT !.breite = 900, !.hoehe = 1000],
              [DefaultDoc EXCEPT !.breite = 1100, !.hoehe = 1000],
              [DefaultDoc EXCEPT !.breite = 1000, !.hoehe = 1100]}
        \cup {[DefaultDoc EXCEPT
                   !.bildnummer = SubSeq(Chars("123456789012345"), 1, n),
                   !.db = db] :
                 n \in 0..MaxIdLen, db \in {Chars("st"), Chars("sp")}}

\* Documents that differ in what the warnings count
WarnDocs ==
    {DefaultDoc,
     [DefaultDoc EXCEPT !.suchtext = None],
     [DefaultDoc EXCEPT !.title = Some(Chars("Existing Title")),
                        !.description = Some(Chars("Existing Description"))],
     [DefaultDoc EXCEPT !.suchtext = Some(<<>>)],
     [DefaultDoc EXCEPT !.suchtext = Some(Chars("Wer ist das?")),
                        !.title = Some(Chars("Existing Title")),
                        !.description = Some(Chars("Existing Description"))],
     [DefaultDoc EXCEPT !.suchtext = Some(Chars("ab  cd")),
                        !.description = Some(Chars("Existing Description"))],
     [DefaultDoc EXCEPT !.suchtext = Some(Chars("und der and")),
                        !.title = Some(Chars("Existing Title"))],
     [DefaultDoc EXCEPT !.suchtext = Some(Chars("and the und")),
                        !.title = Some(Chars("Existing Title"))]}

ItemHit(doc, score) ==
    [_id |-> doc.bildnummer, _score |-> score, _source |-> doc,
     highlight |-> None]

\* Responses with no hit, one hit, or two hits with different ids
ItemOutcomes ==
    LET ItemHitLists ==
            {<<>>} \cup {<<ItemHit(doc, 1)>> : doc \in ItemDocs}
            \cup {<<ItemHit(d1, 2),
                    ItemHit([d2 EXCEPT !.bildnummer = Chars("123456")], 1)>> :
                     d1 \in WarnDocs, d2 \in WarnDocs}
    IN  {EngineOk([total |-> [form |-> "object", value |-> Len(hits)],
                   hits |-> hits, took |-> 45]) : hits \in ItemHitLists}

NextItem ==
    \/ Search(DefaultRequest)
    \/ \E o \in ItemOutcomes : PrimarySettles(o)
    \/ \E o \in NoFacetOutcomes : FacetsSettle(o)
    \/ \E t \in Tooks : Compose(t)
    \/ \E id \in GetIds : GetStarts(id)
    \/ \E o \in UNION {GetOutcomes(id) : id \in GetIds} : GetSettles(o)

SpecItem == Init /\ [][NextItem]_vars

(***************************************************************************)
(* Adapter calls that carry a caller's query                               *)
(***************************************************************************)
\* Queries as the callers of the adapter and its tests write them
CallerQueries ==
    LET MatchQuery(field, key, text) ==
            JObj(<<Entry("match",
                     JObj(<<Entry(field, JObj(<<Entry(key, JStr(Chars(text)))>>))>>))>>)
        ScriptClause ==
            Entry("script", JObj(<<Entry("source", JStr(Chars("malicious script")))>>))
    IN  {JStr(<<>>), JStr(Chars("dangerous string query")), JStr(Chars("a?b")),
         JObj(<<Entry("match_all", JObj(<<>>))>>),
         MatchQuery("title", "query", "berg"),
         MatchQuery("title", "query", "a+b"),
         MatchQuery("title", "operator", "a+b"),
         JObj(<<ScriptClause,
                Entry("match", JObj(<<Entry("field", JStr(Chars("value")))>>))>>),
         JObj(<<Entry("script_score",
                    JObj(<<Entry("query", JObj(<<Entry("match_all", JObj(<<>>))>>)),
                           ScriptClause>>))>>),
         JObj(<<Entry("bool",
                    JObj(<<Entry("must",
                               JArr(<<JObj(<<Entry("function_score", JObj(<<>>))>>),
                                      MatchQuery("suchtext", "query", "berg")>>))>>))>>),
         JObj(<<Entry("terms", JObj(<<Entry("value",
                    JArr(<<JStr(Chars("a:b")), JStr(Chars("c")), JNum(5)>>))>>))>>),
         JObj(<<Entry("term", JObj(<<Entry("breite", JNum(1920))>>))>>)}

\* One response body with the fields that search, count and aggregate read
QueryOutcomes ==
    {EngineOk([total |-> [form |-> "object", value |-> 0], hits |-> <<>>,
               took |-> 45, count |-> 0, aggregations |-> None])}
    \cup {EngineFails(e) : e \in EngineErrors}

\* search, count or aggregate is called with a query while NODE_ENV is env
AdapterQueryCall(op, q, env) ==
    /\ pc = "idle"
    /\ pc' = "adapter_query"
    /\ query' = Some([op |-> op, query |-> q, env |-> env])
    /\ sent' = <<adapterRequest(op, q)>>
    /\ primary' = Pending
    /\ UNCHANGED <<calls, facets, svc, http>>
    /\ UNCHANGED <<mediaVars, clientVars>>

\* The engine answers that call and the adapter settles it
AdapterQuerySettles(outcome) ==
    /\ pc = "adapter_query"
    /\ primary.state = "pending"
    /\ pc' = "adapter_done"
    /\ primary' = adapterSettle(Val(query).op, outcome)
    /\ calls' = calls \cup {[op |-> Val(query).op, outcome |-> outcome,
                             result |-> adapterSettle(Val(query).op, outcome)]}
    /\ UNCHANGED <<query, sent, facets, svc, http>>
    /\ UNCHANGED <<mediaVars, clientVars>>

NextAdapter ==
    \/ \E op \in QueryOps, q \in CallerQueries,
            env \in {"production", "development"} :
          AdapterQueryCall(op, q, env)
    \/ \E o \in QueryOutcomes : AdapterQuerySettles(o)

SpecAdapter == Init /\ [][NextAdapter]_vars

(***************************************************************************)
(* MediaService calls: getMediaItem and validateImageUrls                  *)
(***************************************************************************)
MaxUrls == 6

batchSize == 5

\* One batch that holds every URL
batches_single(imageUrls) == IF imageUrls = <<>> THEN <<>> ELSE <<imageUrls>>

\* for (i = 0; i < imageUrls.length; i += batchSize)
\*   batches.push(imageUrls.slice(i, i + batchSize))
batches(imageUrls) ==
    [k \in 1..((Len(imageUrls) + batchSize - 1) \div batchSize) |->
        SubSeq(imageUrls, (k - 1) * batchSize + 1,
               IF k * batchSize < Len(imageUrls) THEN k * batchSize
               ELSE Len(imageUrls))]

\* The HEAD requests of one batch, all issued before the first await
HeadRequests(batch, k) ==
    [i \in 1..Len(batch) |->
        [url |-> batch[i], batch |-> k, state |-> "pending", outcome |-> None,
         metadata |-> None]]

\* The request has settled and getImageMetadata has returned
HeadSettled(request, outcome) ==
    [request EXCEPT !.state = "settled", !.outcome = Some(outcome),
                    !.metadata = Some(getImageMetadata(outcome))]

\* Ids as the tests of getMediaItem and isValidMediaId write them
MediaIds ==
    {<<>>, Chars("258999077"), Chars("id-with_9"), Chars("invalid@id"),
     Chars("id with spaces"), Chars("../../etc/passwd"),
     [i \in 1..50 |-> "a"], [i \in 1..51 |-> "a"]}

\* HEAD responses and failures as the tests of getImageMetadata write them
HeadOutcomes ==
    {HeadResponse(TRUE, 200, "OK", Some("image/jpeg"), Some(Chars("150000")),
                  Some("Wed, 15 Aug 2023 10:30:00 GMT")),
     HeadResponse(TRUE, 200, "OK", Some("image/jpeg"), Some(Chars("0")), None),
     HeadResponse(TRUE, 200, "OK", Some("text/html"), None, None),
     HeadResponse(TRUE, 200, "OK", Some(""), Some(<<>>), Some("")),
     HeadResponse(TRUE, 200, "OK", None, Some(Chars("abc")), None),
     HeadResponse(FALSE, 404, "Not Found", None, None, None),
     HeadFails("Network error"),
     HeadFails("This operation was aborted")}

\* The outcomes that the tests of validateImageUrls mix: a valid image, a
\* missing one and a failed request
ValidateOutcomes ==
    {HeadResponse(TRUE, 200, "OK", Some("image/jpeg"), None, None),
     HeadResponse(FALSE, 404, "Not Found", None, None, None),
     HeadFails("Network error")}

\* Lists of distinct URLs of every length, and lists that repeat a URL
\* within a batch and across batches
UrlLists ==
    LET Urls == <<"u1", "u2", "u3", "u4", "u5", "u6", "u7", "u8", "u9">>
    IN  {SubSeq(Urls, 1, n) : n \in 0..MaxUrls}
        \cup {<<"u1", "u1">>, <<"u1", "u2", "u3", "u4", "u5", "u1">>}

\* MediaService.getMediaItem(id): an invalid id is rejected before the lookup,
\* a valid id is handed to searchService.getMediaItem
MediaGetMediaItem(id) ==
    /\ mpc = "idle"
    /\ input' = Some([op |-> "getMediaItem", id |-> id, urls |-> <<>>])
    /\ IF ~isValidMediaId(id)
       THEN /\ mpc' = "done"
            /\ reply' = Rejected(HttpException("BadRequestException",
                                               "Invalid media ID format", None))
            /\ UNCHANGED lookups
       ELSE /\ mpc' = "lookup"
            /\ reply' = Pending
            /\ lookups' = Append(lookups, [id |-> id, result |-> Pending])
    /\ UNCHANGED <<found, heads, validated>>
    /\ UNCHANGED <<pc, query, sent, calls, primary, facets, svc, http, clientVars>>

\* The lookup settles: its failure is the call's failure, null is NotFound,
\* an item starts enhanceMediaItem, which issues the HEAD request
MediaLookupSettles(outcome) ==
    /\ mpc = "lookup"
    /\ outcome \in GetOutcomes(Val(input).id)
    /\ LET r == getMediaItem(adapterSettle("get", outcome))
       IN  /\ lookups' = [lookups EXCEPT ![Len(lookups)].result = r]
           /\ IF r.state = "rejected"
              THEN /\ mpc' = "done"
                   /\ reply' = r
                   /\ UNCHANGED <<found, heads>>
              ELSE IF ~IsSome(r.value)
              THEN /\ mpc' = "done"
                   /\ reply' = Rejected(HttpException("NotFoundException",
                                    "Media item not found", Some(Val(input).id)))
                   /\ UNCHANGED <<found, heads>>
              ELSE /\ mpc' = "head"
                   /\ found' = r.value
                   /\ heads' = HeadRequests(
                                   <<validateAndConstructImageUrl(
                                        Val(r.value).database,
                                        Val(r.value).bildnummer)>>, 1)
                   /\ UNCHANGED reply
    /\ UNCHANGED <<input, validated>>
    /\ UNCHANGED <<pc, query, sent, calls, primary, facets, svc, http, clientVars>>

\* The HEAD request of enhanceMediaItem settles and the call returns
MediaHeadSettles(outcome) ==
    /\ mpc = "head"
    /\ heads[1].state = "pending"
    /\ mpc' = "done"
    /\ heads' = [heads EXCEPT ![1] = HeadSettled(heads[1], outcome)]
    /\ reply' = Fulfilled(Some(enhanceMediaItem(Val(found),
                                                getImageMetadata(outcome))))
    /\ UNCHANGED <<input, lookups, found, validated>>
    /\ UNCHANGED <<pc, query, sent, calls, primary, facets, svc, http, clientVars>>

\* validateImageUrls(imageUrls): the first batch is issued, or the empty
\* result is returned when there is no batch
ValidateImageUrls(imageUrls) ==
    /\ mpc = "idle"
    /\ input' = Some([op |-> "validateImageUrls", id |-> <<>>, urls |-> imageUrls])
    /\ IF batches(imageUrls) = <<>>
       THEN /\ mpc' = "done"
            /\ reply' = Fulfilled(Some(validated))
            /\ UNCHANGED heads
       ELSE /\ mpc' = "validating"
            /\ reply' = Pending
            /\ heads' = HeadRequests(batches(imageUrls)[1], 1)
    /\ UNCHANGED <<lookups, found, validated>>
    /\ UNCHANGED <<pc, query, sent, calls, primary, facets, svc, http, clientVars>>

\* One HEAD request of the current batch settles
ValidateHeadSettles(i, outcome) ==
    /\ mpc = "validating"
    /\ i \in 1..Len(heads)
    /\ heads[i].state = "pending"
    /\ heads' = [heads EXCEPT ![i] = HeadSettled(heads[i], outcome)]
    /\ UNCHANGED <<mpc, input, lookups, found, validated, reply>>
    /\ UNCHANGED <<pc, query, sent, calls, primary, facets, svc, http, clientVars>>

\* Promise.allSettled of the current batch resolves: its results are stored
\* by URL in batch order, then the next batch is issued or the call returns
ValidateBatchSettled ==
    /\ mpc = "validating"
    /\ \A i \in 1..Len(heads) : heads[i].state = "settled"
    /\ LET k == heads[Len(heads)].batch
           all == batches(Val(input).urls)
           mine == {i \in 1..Len(heads) : heads[i].batch = k}
           urls == {heads[i].url : i \in mine}
           last(u) == CHOOSE i \in mine :
                         /\ heads[i].url = u
                         /\ \A j \in mine : heads[j].url = u => j <= i
           stored == [u \in (DOMAIN validated) \cup urls |->
                        IF u \in urls THEN Val(heads[last(u)].metadata)
                        ELSE validated[u]]
       IN  /\ validated' = stored
           /\ IF k < Len(all)
              THEN /\ heads' = heads \o HeadRequests(all[k + 1], k + 1)
                   /\ UNCHANGED <<mpc, reply>>
              ELSE /\ mpc' = "done"
                   /\ reply' = Fulfilled(Some(stored))
                   /\ UNCHANGED heads
    /\ UNCHANGED <<input, lookups, found>>
    /\ UNCHANGED <<pc, query, sent, calls, primary, facets, svc, http, clientVars>>

NextMedia ==
    \/ \E id \in MediaIds : MediaGetMediaItem(id)
    \/ \E o \in UNION {GetOutcomes(id) : id \in MediaIds} : MediaLookupSettles(o)
    \/ \E o \in HeadOutcomes : MediaHeadSettles(o)
    \/ \E imageUrls \in UrlLists : ValidateImageUrls(imageUrls)
    \/ \E i \in 1..Len(heads), o \in ValidateOutcomes : ValidateHeadSettles(i, o)
    \/ ValidateBatchSettled

\* Every HEAD request settles (fetch answers or the 5 second abort fires) and
\* a settled batch is processed
SpecMedia ==
    /\ Init
    /\ [][NextMedia]_vars
    /\ WF_vars(\E i \in 1..Len(heads), o \in ValidateOutcomes :
                  ValidateHeadSettles(i, o))
    /\ WF_vars(ValidateBatchSettled)

(***************************************************************************)
(* Engine client life cycle (ElasticsearchService.onModuleInit,            *)
(* initializeClient, startHealthCheck, onModuleDestroy)                    *)
(***************************************************************************)
MaxTicks == 2

\* A request on a client is answered iff the engine is reachable and the
\* client has not been closed
Answers(c) == engine = "up" /\ clients[c].state = "open"

\* `this.client = new Client(clientConfig)`: the clients after one more has
\* been created; the field is overwritten, the previous client is not closed
newClient == Append(clients, [state |-> "open", born |-> lifecycle])

\* The process runs: neither init has failed (main.ts exits) nor an
\* unhandled rejection has ended it
Running == lifecycle \notin {"init_failed", "crashed"}

\* onModuleInit: initializeClient creates the client and awaits info()
OnModuleInit ==
    /\ lifecycle = "constructed"
    /\ lifecycle' = "initializing"
    /\ clients' = newClient
    /\ client' = Some(Len(newClient))
    /\ tasks' = Append(tasks, [kind |-> "init", at |-> "info",
                               uses |-> Len(newClient)])
    /\ UNCHANGED <<interval, engine>>
    /\ UNCHANGED <<pc, query, sent, calls, primary, facets, svc, http, mediaVars>>

\* An await of initializeClient settles: info() is followed by
\* cluster.health() on this.client; a failure is logged and rethrown, which
\* fails onModuleInit or leaves the health-check callback with a rejected
\* promise that nothing handles; success of init starts the interval
ConnectSettles(t) ==
    /\ Running
    /\ t \in 1..Len(tasks)
    /\ tasks[t].at \in {"info", "health"}
    /\ IF ~Answers(tasks[t].uses)
       THEN /\ tasks' = [tasks EXCEPT ![t].at =
                            IF tasks[t].kind = "init" THEN "failed" ELSE "unhandled"]
            /\ lifecycle' = IF tasks[t].kind = "init" THEN "init_failed"
                            ELSE lifecycle
            /\ UNCHANGED interval
       ELSE IF tasks[t].at = "info"
       THEN /\ tasks' = [tasks EXCEPT ![t].at = "health", ![t].uses = Val(client)]
            /\ UNCHANGED <<interval, lifecycle>>
       ELSE /\ tasks' = [tasks EXCEPT ![t].at = "done"]
            /\ IF tasks[t].kind = "init"
               THEN interval' = "set" /\ lifecycle' = "running"
               ELSE UNCHANGED <<interval, lifecycle>>
    /\ UNCHANGED <<client, clients, engine>>
    /\ UNCHANGED <<pc, query, sent, calls, primary, facets, svc, http, mediaVars>>

\* The interval fires: the callback calls this.client.ping()
Tick ==
    /\ Running
    /\ interval = "set"
    /\ Cardinality({t \in 1..Len(tasks) : tasks[t].kind = "tick"}) < MaxTicks
    /\ tasks' = Append(tasks, [kind |-> "tick", at |-> "ping", uses |-> Val(client)])
    /\ UNCHANGED <<client, clients, interval, engine, lifecycle>>
    /\ UNCHANGED <<pc, query, sent, calls, primary, facets, svc, http, mediaVars>>

\* The ping settles: on failure the catch block calls initializeClient,
\* which creates another client and awaits info()
PingSettles(t) ==
    /\ Running
    /\ t \in 1..Len(tasks)
    /\ tasks[t].at = "ping"
    /\ IF Answers(tasks[t].uses)
       THEN /\ tasks' = [tasks EXCEPT ![t].at = "done"]
            /\ UNCHANGED <<client, clients>>
       ELSE /\ clients' = newClient
            /\ client' = Some(Len(newClient))
            /\ tasks' = [tasks EXCEPT ![t].at = "info", ![t].uses = Len(newClient)]
    /\ UNCHANGED <<interval, engine, lifecycle>>
    /\ UNCHANGED <<pc, query, sent, calls, primary, facets, svc, http, mediaVars>>

\* onModuleDestroy: clearInterval, then this.client.close() is awaited
OnModuleDestroy ==
    /\ lifecycle = "running"
    /\ lifecycle' = "destroying"
    /\ interval' = "cleared"
    /\ clients' = [clients EXCEPT ![Val(client)].state = "closed"]
    /\ tasks' = Append(tasks, [kind |-> "destroy", at |-> "close",
                               uses |-> Val(client)])
    /\ UNCHANGED <<client, engine>>
    /\ UNCHANGED <<pc, query, sent, calls, primary, facets, svc, http, mediaVars>>

\* close() has resolved: onModuleDestroy completes
DestroyCompletes(t) ==
    /\ lifecycle = "destroying"
    /\ t \in 1..Len(tasks)
    /\ tasks[t].at = "close"
    /\ tasks' = [tasks EXCEPT ![t].at = "done"]
    /\ lifecycle' = "destroyed"
    /\ UNCHANGED <<client, clients, interval, engine>>
    /\ UNCHANGED <<pc, query, sent, calls, primary, facets, svc, http, mediaVars>>

\* The engine becomes unreachable or reachable again
EngineChanges ==
    /\ Running
    /\ engine' = IF engine = "up" THEN "down" ELSE "up"
    /\ UNCHANGED <<client, clients, interval, tasks, lifecycle>>
    /\ UNCHANGED <<pc, query, sent, calls, primary, facets, svc, http, mediaVars>>

\* The runtime ends the process on an unhandled rejection (the default of
\* current Node.js; no handler is registered in main.ts)
ProcessExits ==
    /\ Running
    /\ \E t \in 1..Len(tasks) : tasks[t].at = "unhandled"
    /\ lifecycle' = "crashed"
    /\ UNCHANGED <<client, clients, interval, tasks, engine>>
    /\ UNCHANGED <<pc, query, sent, calls, primary, facets, svc, http, mediaVars>>

NextLifecycle ==
    \/ OnModuleInit
    \/ \E t \in 1..(MaxTicks + 2) : ConnectSettles(t)
    \/ Tick
    \/ \E t \in 1..(MaxTicks + 2) : PingSettles(t)
    \/ OnModuleDestroy
    \/ \E t \in 1..(MaxTicks + 2) : DestroyCompletes(t)
    \/ EngineChanges
    \/ ProcessExits

SpecLifecycle == Init /\ [][NextLifecycle]_vars

(***************************************************************************)
(* Properties                                                              *)
(***************************************************************************)
\* The engine outcome of the completed adapter call `op`, if any
OutcomeOf(op) == {c.outcome : c \in {d \in calls : d.op = op}}

IsStatus(err, st) == err.cls = "ResponseError" /\ err.statusCode = st

\* C1: for a request with offset >= 0 and limit in 1..100 and an engine
\* response with total >= 0 and `returned` hits, the metadata has
\* page = floor(offset/limit)+1, totalPages = ceil(total/limit) and
\* hasMore = (offset + returned < total); total 1543, limit 20, offset 0 and
\* 1 hit give page 1, totalPages 78 and hasMore true.
C1_PaginationMetadata ==
    (pc = "search_done" /\ IsSome(Val(query).from) /\ IsSome(Val(query).size)) =>
        LET offset == Val(Val(query).from)
            limit == Val(Val(query).size)
            m == Val(svc.value).metadata
        IN  \A o \in OutcomeOf("search") :
              LET total == Val(o.payload).total.value
                  returned == Len(Val(o.payload).hits)
              IN  (offset >= 0 /\ limit \in 1..100 /\ total >= 0) =>
                    /\ (m.page - 1) * limit <= offset
                    /\ offset < m.page * limit
                    /\ m.totalPages * limit >= total
                    /\ (m.totalPages - 1) * limit < total
                    /\ m.hasMore = (offset + returned < total)
                    /\ m.total = total /\ m.count = returned
                    /\ (total = 1543 /\ limit = 20 /\ offset = 0 /\ returned = 1)
                          => (m.page = 1 /\ m.totalPages = 78 /\ m.hasMore)

\* C1 witness: the search of 1543 matches, limit 20, offset 0, one hit
C1_Witness ==
    /\ pc = "search_done"
    /\ Val(query).from = Some(0) /\ Val(query).size = Some(20)
    /\ \E o \in OutcomeOf("search") :
          Val(o.payload).total.value = 1543 /\ Len(Val(o.payload).hits) = 1
    /\ Val(svc.value).metadata.totalPages = 78

\* The aggregation call failed or came back without aggregations
AggregationDegraded ==
    \E o \in OutcomeOf("aggregate") : ~o.ok \/ ~IsSome(Val(o.payload).aggregations)

PrimarySucceeded == \E o \in OutcomeOf("search") : o.ok

\* C2: when the aggregation call fails (or returns no aggregations) and the
\* primary search call succeeds, search() returns a success response with the
\* transformed results and metadata, no facets and a stats object without
\* dimensions and date range; the aggregation failure never reaches the caller.
C2_AggregationFailureDegrades ==
    /\ AggregationDegraded => facets.state = "fulfilled"
    /\ (AggregationDegraded /\ PrimarySucceeded) =>
          /\ pc \in {"searching", "search_done"}
          /\ svc.state # "rejected"
          \* composition can run: the guard of Compose holds
          /\ (pc = "searching" /\ primary.state = "fulfilled"
                /\ facets.state = "fulfilled") \/ pc = "search_done"
          /\ pc = "search_done" =>
                LET r == Val(svc.value)
                IN  /\ svc.state = "fulfilled"
                    /\ r.success
                    /\ r.facets = <<>>
                    /\ r.stats.dimensions = None
                    /\ r.stats.dateRange = None
                    /\ \A o \in OutcomeOf("search") :
                          /\ Len(r.results) = Len(Val(o.payload).hits)
                          /\ r.metadata.total = Val(o.payload).total.value
    /\ svc.state = "rejected" /\ pc = "search_failed" =>
          \E c \in calls : c.op = "search" /\ c.result = svc

\* C2 witness: a composed response after a failed aggregation call
C2_Witness ==
    /\ pc = "search_done"
    /\ \E o \in OutcomeOf("aggregate") : ~o.ok
    /\ Len(Val(svc.value).results) > 0

\* The primary search call failed with a connectivity or timeout failure
PrimaryDown ==
    \E o \in OutcomeOf("search") :
        ~o.ok /\ Val(o.error).cls \in {"ConnectionError", "RequestAbortedError"}

\* C3 (as stated): a connectivity or timeout failure of the primary search
\* call makes search() fail with a service-unavailable failure.
C3_PrimaryFailureIsServiceUnavailable ==
    (pc = "search_failed" /\ PrimaryDown) =>
        /\ svc.state = "rejected"
        /\ Val(svc.error).name = "ServiceUnavailableException"

\* C3 (amended): a connectivity failure of the primary search call makes
\* search() fail with ServiceUnavailable and a timed-out (aborted) primary call
\* makes it fail with Timeout; in both cases no response is produced, whatever
\* the outcome of the aggregation call.
C3_PrimaryFailureNoResponse ==
    PrimaryDown =>
        /\ pc \in {"searching", "search_failed"}
        /\ svc.value = None
        /\ ~ENABLED (\E t \in Tooks : Compose(t))
        /\ pc = "searching" => ENABLED SearchRejects
        /\ pc = "search_failed" =>
              /\ svc.state = "rejected"
              /\ \A o \in OutcomeOf("search") :
                    /\ Val(o.error).cls = "ConnectionError" =>
                          /\ Val(svc.error).name = "ServiceUnavailableException"
                          /\ Val(svc.error).status = 503
                    /\ Val(o.error).cls = "RequestAbortedError" =>
                          /\ Val(svc.error).name = "RequestTimeoutException"
                          /\ Val(svc.error).status = 408

\* C3 witness: the search failed on a timed-out primary call although the
\* aggregation call succeeded
C3_Witness ==
    /\ pc = "search_failed"
    /\ \E o \in OutcomeOf("search") : ~o.ok /\ Val(o.error).cls = "RequestAbortedError"
    /\ \E o \in OutcomeOf("aggregate") : o.ok

\* The failure kinds of the taxonomy, as the exceptions that carry them
Taxonomy ==
    [ServiceUnavailable |-> "ServiceUnavailableException",
     Timeout |-> "RequestTimeoutException",
     InternalFailure |-> "InternalServerErrorException"]

FailedCalls == {c \in calls : ~c.outcome.ok}

AbsentOnGet(c) == c.op = "get" /\ IsStatus(Val(c.outcome.error), 404)

\* C4: every failure of an adapter operation reaches the caller as exactly one
\* kind of the taxonomy, never as the raw engine exception: a connection error
\* as ServiceUnavailable, a 429 or 503 response as ServiceUnavailable, an
\* aborted request as Timeout, an unrecognized error as InternalFailure (a 404
\* answer to get is the absent result).
C4_AdapterFailuresClassified ==
    \A c \in FailedCalls :
        LET e == Val(c.outcome.error)
            r == c.result
        IN  IF AbsentOnGet(c)
            THEN r = Fulfilled(None)
            ELSE /\ r.state = "rejected"
                 /\ DOMAIN Val(r.error) = {"name", "status", "message", "detail"}
                 /\ Cardinality({k \in DOMAIN Taxonomy :
                                    Taxonomy[k] = Val(r.error).name}) = 1
                 /\ e.cls = "ConnectionError"
                       => Val(r.error).name = Taxonomy.ServiceUnavailable
                 /\ (IsStatus(e, 429) \/ IsStatus(e, 503))
                       => Val(r.error).name = Taxonomy.ServiceUnavailable
                 /\ e.cls = "RequestAbortedError"
                       => Val(r.error).name = Taxonomy.Timeout
                 /\ e.cls = "Error"
                       => Val(r.error).name = Taxonomy.InternalFailure

\* C4 witness: an adapter operation outside the search path lost its
\* connection and was rejected as ServiceUnavailable
C4_Witness ==
    \E c \in FailedCalls :
        /\ c.op \in StandaloneOps
        /\ Val(c.outcome.error).cls = "ConnectionError"
        /\ c.result.state = "rejected"
        /\ Val(c.result.error).status = 503

MalformedQueryCalls ==
    {c \in FailedCalls : c.op \in {"search", "aggregate"}
                           /\ IsStatus(Val(c.outcome.error), 400)}

\* C5 (as stated): a malformed-query rejection of a search or aggregation call
\* is classified as InvalidQuery, a kind distinct from InternalFailure that
\* maps to transport status 400, and carries the engine-reported reason.
C5_MalformedQueryIsInvalidQuery ==
    \A c \in MalformedQueryCalls :
        /\ c.result.state = "rejected"
        /\ Val(c.result.error).name # Taxonomy.InternalFailure
        /\ Val(c.result.error).status = 400
        /\ IsSome(Val(c.result.error).detail)

\* C5 (amended): a 400 rejection of a search or aggregation call is
\* classified as InternalFailure (transport status 500), told apart from the
\* other internal failures only by its message "Invalid Elasticsearch query: "
\* followed by the type of the body's error member when the body has one
\* (absent when that member has no type) and by the error message otherwise.
C5_MalformedQueryIsInternalFailure ==
    \A c \in MalformedQueryCalls :
        LET e == Val(c.outcome.error)
            x == Val(c.result.error)
        IN  /\ c.result.state = "rejected"
            /\ x.name = Taxonomy.InternalFailure
            /\ x.status = 500
            /\ x.message = "Invalid Elasticsearch query: "
            /\ e.body.hasError => x.detail = e.body.type
            /\ ~e.body.hasError => x.detail = Some(e.message)
            /\ \A d \in FailedCalls :
                  (d.result.state = "rejected" /\ ~IsStatus(Val(d.outcome.error), 400))
                      => Val(d.result.error).message # x.message

\* C5 witness: a search rejected with 400 and a typed error body
C5_Witness ==
    \E c \in MalformedQueryCalls :
        /\ c.op = "search"
        /\ Val(c.outcome.error).body.type = Some("parsing_exception")
        /\ Val(c.result.error).detail = Some("parsing_exception")

\* The taxonomy kind a failed get must be raised as
ExpectedKind(e) ==
    IF e.cls = "ConnectionError" \/ IsStatus(e, 429) \/ IsStatus(e, 503)
    THEN Taxonomy.ServiceUnavailable
    ELSE IF e.cls = "RequestAbortedError" THEN Taxonomy.Timeout
    ELSE Taxonomy.InternalFailure

\* C6: getById returns not-found (null) without raising exactly when the
\* engine's get answers 404; every other failure of the get is raised as its
\* taxonomy kind; an existing document yields its transformed item with the
\* same identifier.
C6_GetByIdNotFoundIffAbsent ==
    pc = "get_done" =>
        \A c \in {d \in calls : d.op = "get"} :
            /\ (svc = Fulfilled(None)) <=> (~c.outcome.ok /\ AbsentOnGet(c))
            /\ (~c.outcome.ok /\ ~AbsentOnGet(c)) =>
                  /\ svc.state = "rejected"
                  /\ Val(svc.error).name = ExpectedKind(Val(c.outcome.error))
            /\ c.outcome.ok =>
                  /\ svc.state = "fulfilled"
                  /\ IsSome(svc.value)
                  /\ Val(svc.value).id = Val(query).id
                  /\ Val(svc.value).highlights = None

\* C6 witness: a lookup answered 404 has returned null
C6_Witness ==
    /\ pc = "get_done"
    /\ svc = Fulfilled(None)
    /\ \E c \in calls : c.op = "get" /\ IsStatus(Val(c.outcome.error), 404)

\* C7: on GET api/search/media/:id the caller sees 404 only when the engine
\* reports the item absent; a lookup that fails with ServiceUnavailable,
\* Timeout or InternalFailure is answered with that failure's own status.
C7_LookupFailureKeepsItsStatus ==
    (pc = "get_done" /\ svc.state = "rejected") =>
        /\ http # Some(404)
        /\ http = Some(Val(svc.error).status)

ForbiddenChars == {"<", ">", "{", "}", "[", "]", "(", ")"}

\* The query text with the forbidden characters removed and the surrounding
\* whitespace dropped
Sanitized(q) == Trim(SelectSeq(Val(q), LAMBDA c : c \notin ForbiddenChars))

\* The bool query of the primary search call
SentQuery == sent[1].query

\* C8: build(request) emits exactly one must clause: match-all when the query
\* text is absent, blank or empty after sanitization, otherwise one multi-field
\* match (weights 3/2/1.5/1, fuzziness auto, operator and, 75%) whose text is
\* the sanitized query text, non-empty and free of < > { } [ ] ( ).
C8_ExactlyOneMustClause ==
    pc = "searching" =>
        LET q == Val(query).q
            must == SentQuery.must
        IN  /\ Len(must) = 1
            /\ IF ~IsSome(q) \/ Sanitized(q) = <<>>
               THEN must[1] = [clause |-> "match_all"]
               ELSE /\ must[1].clause = "multi_match"
                    /\ must[1].query = Sanitized(q)
                    /\ must[1].query # <<>>
                    /\ \A i \in 1..Len(must[1].query) :
                          must[1].query[i] \notin ForbiddenChars
                    /\ must[1].fields = <<"suchtext^3", "title^2",
                                          "description^1.5", "fotografen^1">>
                    /\ must[1].fuzziness = "AUTO"
                    /\ must[1].operator = "and"
                    /\ must[1].minimum_should_match = "75%"

\* A string filter has a value when it is present and not empty; a numeric
\* bound when it is present; the ID list when it has an entry
GivenStr(o) == IsSome(o) /\ Val(o) # ""
GivenNum(o) == IsSome(o)
GivenIds(o) == IsSome(o) /\ Val(o) # <<>>

ClausesOn(filter, field) ==
    {i \in 1..Len(filter) : filter[i].field = field}

\* The filter list has one clause on `field` iff `given`, and that clause
\* satisfies `ok`
OneClauseIff(filter, field, given, ok(_)) ==
    /\ Cardinality(ClausesOn(filter, field)) = IF given THEN 1 ELSE 0
    /\ \A i \in ClausesOn(filter, field) : ok(filter[i])

RangeOk(cl, lo, hi, givenLo, givenHi) ==
    /\ cl.clause = "range"
    /\ IsSome(cl.gte) <=> givenLo
    /\ IsSome(cl.lte) <=> givenHi
    /\ givenLo => cl.gte = lo
    /\ givenHi => cl.lte = hi

C10_SortSpec ==
    pc = "searching" =>
        LET rq == Val(query)
            sort == sent[1].sort
        IN  \A k \in DOMAIN SortField, o \in {"asc", "desc"} :
              /\ (rq.sortBy = Some(SortField[k]) /\ rq.sortOrder = Some(o)) =>
                    sort[1] = [field |-> SortField[k], order |-> o]
              /\ (rq.sortBy = Some(SortField[k]) /\ rq.sortOrder = None) =>
                    sort[1] = [field |-> SortField[k], order |-> "desc"]
              /\ (rq.sortBy = None /\ rq.sortOrder = Some(o)) =>
                    sort[1] = [field |-> SortField.RELEVANCE, order |-> o]
              /\ (rq.sortBy = None /\ rq.sortOrder = None) =>
                    sort[1] = [field |-> SortField.RELEVANCE, order |-> "desc"]
              /\ IF sort[1].field = SortField.IMAGE_ID
                 THEN Len(sort) = 1
                 ELSE /\ Len(sort) = 2
                      /\ sort[2] = [field |-> SortField.IMAGE_ID, order |-> "asc"]

\* C10 witness: a search sorted by id descending carries that single key
C10_Witness ==
    /\ pc = "searching"
    /\ Val(query).sortBy = Some("bildnummer")
    /\ Val(query).sortOrder = Some("desc")
    /\ sent[1].sort = <<[field |-> "bildnummer", order |-> "desc"]>>

(***************************************************************************)
(* Suggestions, warnings and result items                                  *)
(***************************************************************************)
\* The indexes of the vocabulary terms that contain the lower-cased text or
\* are contained in it; none when the text is absent or empty
MatchingTerms(q) ==
    IF ~IsSome(q) \/ Val(q) = <<>> THEN {}
    ELSE {i \in 1..Len(photoTerms) :
             \/ Includes(photoTerms[i], toLowerCase(Val(q)))
             \/ Includes(toLowerCase(Val(q)), photoTerms[i])}

\* The k-th smallest element of a set of numbers
Nth(S, k) == CHOOSE m \in S : Cardinality({x \in S : x < m}) = k - 1

\* C11: the suggestions of a search response are empty iff the total is
\* above 10 (a total of 10 still computes them, 11 does not); up to a total
\* of 10 they are the first three (or fewer) vocabulary terms, in vocabulary
\* order, that contain or are contained in the lower-cased query text, and
\* the first five vocabulary terms when no term matches or there is no text.
C11_Suggestions ==
    pc = "search_done" =>
        LET suggestions == Val(svc.value).suggestions
            M == MatchingTerms(Val(query).q)
        IN  \A o \in OutcomeOf("search") :
              LET total == Val(o.payload).total.value
              IN  /\ (suggestions = <<>>) <=> (total > 10)
                  /\ (total = 10) => suggestions # <<>>
                  /\ (total = 11) => suggestions = <<>>
                  /\ (total <= 10 /\ M = {}) =>
                        /\ Len(suggestions) = 5
                        /\ \A k \in 1..5 : suggestions[k] = photoTerms[k]
                  /\ (total <= 10 /\ M # {}) =>
                        /\ Len(suggestions) = IF Cardinality(M) < 3
                                              THEN Cardinality(M) ELSE 3
                        /\ \A k \in 1..Len(suggestions) :
                              suggestions[k] = photoTerms[Nth(M, k)]

\* C11 witness: a search for "SUN" with a total of exactly 10 suggests the
\* two vocabulary terms that contain "sun"
C11_Witness ==
    /\ pc = "search_done"
    /\ Val(query).q = Some(Chars("SUN"))
    /\ \E o \in OutcomeOf("search") : Val(o.payload).total.value = 10
    /\ Val(svc.value).suggestions = <<Chars("sunset"), Chars("sunrise")>>

\* The fixed texts of the three warnings, in the order of the code
WarningTexts ==
    <<"results have generated titles due to missing original titles",
      "results had text encoding issues that were automatically corrected",
      "results have generated descriptions due to missing original descriptions">>

\* The three counts over the result items of a response
WarningCounts(results) ==
    <<Cardinality({i \in 1..Len(results) : results[i].title = UntitledImage}),
      Cardinality({i \in 1..Len(results) :
                      \/ results[i].cleanedText # Val(results[i].searchText)
                      \/ \E j \in 1..Len(Val(results[i].searchText)) :
                            Val(results[i].searchText)[j] = "?"}),
      Cardinality({i \in 1..Len(results) : results[i].description = NoDescription})>>

\* C12: the warnings field of a search response is present iff one of the
\* three counts over the results (fallback title, corrected or '?'-carrying
\* text, fallback description) is non-zero; when present it holds exactly one
\* message per non-zero count, in that order, each giving its count and the
\* number of results; it is never an empty list and never reports a zero.
C12_Warnings ==
    pc = "search_done" =>
        LET results == Val(svc.value).results
            warnings == Val(svc.value).warnings
            counts == WarningCounts(results)
            nonZero == {k \in 1..3 : counts[k] > 0}
        IN  /\ IsSome(warnings) <=> nonZero # {}
            /\ IsSome(warnings) =>
                  LET w == Val(warnings)
                  IN  /\ Len(w) = Cardinality(nonZero)
                      /\ Len(w) > 0
                      /\ \A k \in nonZero :
                            \E j \in 1..Len(w) :
                               w[j] = [count |-> counts[k], of |-> Len(results),
                                       text |-> WarningTexts[k]]
                      /\ \A j \in 1..Len(w) :
                            /\ w[j].count > 0
                            /\ \E k \in nonZero : w[j].text = WarningTexts[k]
                      /\ \A i, j \in 1..Len(w) :
                            i < j => \E k, l \in 1..3 :
                                        /\ k < l
                                        /\ w[i].text = WarningTexts[k]
                                        /\ w[j].text = WarningTexts[l]

\* C12 witness: two results, one without any text and one whose text holds
\* a '?', give the three messages, each counting 1 of 2
C12_Witness ==
    /\ pc = "search_done"
    /\ Len(Val(svc.value).results) = 2
    /\ Val(svc.value).warnings =
          Some(<<[count |-> 1, of |-> 2, text |-> WarningTexts[1]],
                 [count |-> 1, of |-> 2, text |-> WarningTexts[2]],
                 [count |-> 1, of |-> 2, text |-> WarningTexts[3]]>>)

\* C13: the results of a search are as many as the hits of the engine and
\* the i-th result is the transform of the i-th hit (same id, same score), so
\* the engine's order is kept; the count of the metadata is that number.
C13_ResultsFollowHits ==
    pc = "search_done" =>
        LET results == Val(svc.value).results
        IN  \A o \in OutcomeOf("search") :
              LET hits == Val(o.payload).hits
              IN  /\ Len(results) = Len(hits)
                  /\ \A i \in 1..Len(hits) :
                        /\ results[i].id = hits[i]._id
                        /\ results[i].score = hits[i]._score
                        /\ results[i] =
                              transformMediaItem(hits[i], Val(query).highlight)
                  /\ Val(svc.value).metadata.count = Len(hits)

\* C13 witness: two hits with different ids come back as two results in the
\* same order
C13_Witness ==
    /\ pc = "search_done"
    /\ \E o \in OutcomeOf("search") :
          /\ Len(Val(o.payload).hits) = 2
          /\ Val(o.payload).hits[1]._id # Val(o.payload).hits[2]._id
          /\ Val(svc.value).results[1].id = Val(o.payload).hits[1]._id
          /\ Val(svc.value).results[2].id = Val(o.payload).hits[2]._id
    /\ Val(svc.value).metadata.count = 2

\* The stored documents transformed in the current state, each with the
\* result item made of it: the results of a search, the item of a lookup
Transformed ==
    IF pc = "search_done"
    THEN {[source |-> Val(primary.value).hits[i]._source,
           item |-> Val(svc.value).results[i]] :
             i \in 1..Len(Val(svc.value).results)}
    ELSE IF pc = "get_done" /\ svc.state = "fulfilled" /\ IsSome(svc.value)
    THEN {[source |-> Val(primary.value)._source, item |-> Val(svc.value)]}
    ELSE {}

\* The positions where a space-separated token of c starts, the position
\* where the token starting at i ends, and that token
TokenStarts(c) == {i \in 1..Len(c) : c[i] # " " /\ (i = 1 \/ c[i - 1] = " ")}

TokenEnd(c, i) ==
    CHOOSE j \in i..Len(c) : /\ \A k \in i..j : c[k] # " "
                             /\ j = Len(c) \/ c[j + 1] = " "

TokenAt(c, i) == SubSeq(c, i, TokenEnd(c, i))

\* The starts of the first six tokens of c that are longer than 2 characters
TitleTokens(c) ==
    LET long == {i \in TokenStarts(c) : Len(TokenAt(c, i)) > 2}
    IN  {i \in long : Cardinality({x \in long : x < i}) < 6}

\* C14: a hit without title and description is transformed with the
\* fallbacks: the title is the first six space-separated tokens of the
\* cleaned text that are longer than 2 characters, joined by single spaces,
\* first letter capitalized, or 'Untitled Image' when there is no such
\* token; the description is the cleaned text, cut to 200 characters plus
\* '...' when it is longer, or 'No description available' when it is empty;
\* every result item has a non-empty title and a non-empty description.
C14_TitleAndDescriptionFallbacks ==
    \A t \in Transformed :
       /\ t.item.title # <<>> /\ t.item.description # <<>>
       /\ (t.source.title = None /\ t.source.description = None) =>
            LET c == t.item.cleanedText
                title == t.item.title
                description == t.item.description
                from == TitleTokens(c)
            IN  /\ from = {} => title = UntitledImage
                /\ from # {} =>
                      /\ title[1] # " " /\ title[Len(title)] # " "
                      /\ \A i \in 1..(Len(title) - 1) :
                            ~(title[i] = " " /\ title[i + 1] = " ")
                      /\ Cardinality(TokenStarts(title)) = Cardinality(from)
                      /\ \A k \in 1..Cardinality(from) :
                            LET token == TokenAt(title, Nth(TokenStarts(title), k))
                                word == TokenAt(c, Nth(from, k))
                            IN  IF k = 1
                                THEN token = toUpperCase(<<word[1]>>) \o Tail(word)
                                ELSE token = word
                /\ Len(c) = 0 => description = NoDescription
                /\ Len(c) \in 1..200 => description = c
                /\ Len(c) > 200 =>
                      /\ Len(description) = 203
                      /\ SubSeq(description, 1, 200) = SubSeq(c, 1, 200)
                      /\ SubSeq(description, 201, 203) = <<".", ".", ".">>

\* C14 witness: a document of ten words without title and description gets
\* the title of its first six words, capitalized
C14_Witness ==
    \E t \in Transformed :
       /\ t.source.title = None /\ t.source.description = None
       /\ t.source.suchtext =
             Some(Chars("one two three four five six seven eight nine ten"))
       /\ t.item.title = Chars("One two three four five six")
       /\ t.item.description = Val(t.source.suchtext)

\* The outputs of clean in the current state, each with its input: the
\* cleaned text of every item, and the title and description of the items
\* whose document has a non-blank one
Cleaned ==
    {[input |-> t.source.suchtext, output |-> t.item.cleanedText] : t \in Transformed}
    \cup {[input |-> t.source.title, output |-> t.item.title] :
             t \in {x \in Transformed :
                       x.source.title # None /\ Trim(Val(x.source.title)) # <<>>}}
    \cup {[input |-> t.source.description, output |-> t.item.description] :
             t \in {x \in Transformed :
                       x.source.description # None
                       /\ Trim(Val(x.source.description)) # <<>>}}

\* C15: clean returns, for every input, a string without '?', without
\* U+FFFD, without two white-space characters in a row and without leading
\* or trailing white space; an empty or missing input gives the empty string.
C15_CleanOutput ==
    /\ \A c \in Cleaned :
          LET out == c.output
          IN  /\ \A i \in 1..Len(out) : out[i] \notin {"?", FFFD}
              /\ \A i \in 1..(Len(out) - 1) :
                    ~(out[i] \in WhiteSpace /\ out[i + 1] \in WhiteSpace)
              /\ Len(out) > 0 =>
                    (out[1] \notin WhiteSpace /\ out[Len(out)] \notin WhiteSpace)
              /\ (c.input = None \/ c.input = Some(<<>>)) => out = <<>>
    /\ (pc = "get_done" /\ primary.state = "fulfilled" /\ IsSome(primary.value))
          => Transformed # {}

\* C15 witness: "Text with ? and U+FFFD encoding issues" has been cleaned
C15_Witness ==
    \E c \in Cleaned :
       /\ c.input = Some(Chars("Text with ? and ") \o <<FFFD>>
                             \o Chars(" encoding issues"))
       /\ c.output = Chars("Text with ' and \" encoding issues")

\* The positions of s where an agency name starts, in any letter case
AgencyPositions(s) == {j \in 1..Len(s) : AgenciesAt(s, j) # {}}

\* The agency names that follow a marker: for each U+FFFD of s, the first
\* agency name after it on its line
Boilerplate(s) ==
    {j \in AgencyPositions(s) :
        \E i \in 1..(j - 1) :
           /\ s[i] = FFFD
           /\ \A k \in (i + 1)..(j - 1) :
                 s[k] \notin LineTerminators /\ k \notin AgencyPositions(s)}

\* C16: clean strips the agency boilerplate: when every agency name of a
\* text is the one that follows a U+FFFD marker, the cleaned text holds no
\* agency name and no replacement of the marker; 'Mountain   landscape
\* U+FFFD ABACAPRESS  content' cleans to 'Mountain landscape content'.
C16_CopyrightStripped ==
    \A c \in Cleaned :
       IsSome(c.input) =>
          LET s == Val(c.input)
          IN  /\ (AgencyPositions(s) # {} /\ AgencyPositions(s) = Boilerplate(s)) =>
                    /\ AgencyPositions(c.output) = {}
                    /\ (\A i \in 1..Len(s) : s[i] \notin {"\"", "'", "?"}) =>
                          \A i \in 1..Len(c.output) : c.output[i] \notin {"\"", "'"}
              /\ s = Chars("Mountain   landscape  ") \o <<FFFD>>
                        \o Chars("ABACAPRESS  content")
                    => c.output = Chars("Mountain landscape content")

\* C17: for integer width >= 0 and height > 0 the orientation is square
\* iff |width/height - 1| < 0.1, that is iff 10*|width - height| < height,
\* and otherwise landscape iff width > height, else portrait; exactly one
\* of the three tags is assigned.
C17_Orientation ==
    \A t \in Transformed :
       LET w == t.source.breite
           h == t.source.hoehe
           o == t.item.orientation
       IN  (w >= 0 /\ h > 0) =>
              /\ o \in {"square", "landscape", "portrait"}
              /\ (o = "square") <=> (10 * Abs(w - h) < h)
              /\ (o = "landscape") <=> (~(10 * Abs(w - h) < h) /\ w > h)
              /\ (o = "portrait") <=> (~(10 * Abs(w - h) < h) /\ w <= h)

\* C18: the image URL of an item is baseImageUrl + '/bild/' + db + '/' + P +
\* '/s.jpg' where P is the id, left-padded with '0' to 10 characters when it
\* is shorter and unchanged (never cut) otherwise; the thumbnail URL is the
\* same URL.
C18_ImageUrl ==
    \A t \in Transformed :
       LET id == t.source.bildnummer
           url == t.item.imageUrl
           prefix == baseImageUrl \o Chars("/bild/") \o t.source.db \o <<"/">>
           P == SubSeq(url, Len(prefix) + 1, Len(url) - 6)
       IN  /\ Len(url) >= Len(prefix) + 6
           /\ SubSeq(url, 1, Len(prefix)) = prefix
           /\ SubSeq(url, Len(url) - 5, Len(url)) = Chars("/s.jpg")
           /\ Len(id) >= 10 => P = id
           /\ Len(id) < 10 =>
                 /\ Len(P) = 10
                 /\ SubSeq(P, 10 - Len(id) + 1, 10) = id
                 /\ \A i \in 1..(10 - Len(id)) : P[i] = "0"
           /\ t.item.thumbnailUrl = url

\* C18 witness: the id 123456 under db sp is padded to 0000123456
C18_Witness ==
    \E t \in Transformed :
       /\ t.source.db = Chars("sp")
       /\ t.source.bildnummer = Chars("123456")
       /\ t.item.imageUrl =
             Chars("https://www.imago-images.de/bild/sp/0000123456/s.jpg")
       /\ t.item.thumbnailUrl = t.item.imageUrl

\* The language of an item against the counts g and e of its cleaned text
LanguageByCounts(item) ==
    LET g == countMatches(item.cleanedText, germanWords)
        e == countMatches(item.cleanedText, englishWords)
    IN  /\ (item.language = "de") <=> (2 * g > 3 * e)
        /\ (item.language = "en") <=> (2 * e > 3 * g)
        /\ (item.language = "mixed") <=> (~(2 * g > 3 * e) /\ ~(2 * e > 3 * g))
        /\ (g = 0 /\ e = 0) => item.language = "mixed"

\* de in place of en and en in place of de
SwapLanguage(l) == IF l = "de" THEN "en" ELSE IF l = "en" THEN "de" ELSE l

\* C19: with g German and e English stop-word matches in a non-empty text
\* the language is de iff g > 1.5*e, en iff e > 1.5*g (never both) and mixed
\* otherwise, g = e = 0 included; two texts with swapped counts get swapped
\* languages (mixed stays mixed); an empty text gives unknown.
C19_Language ==
    /\ \A t \in Transformed :
          IF t.item.cleanedText = <<>>
          THEN t.item.language = "unknown"
          ELSE LanguageByCounts(t.item)
    /\ \A t1, t2 \in Transformed :
          (/\ t1.item.cleanedText # <<>> /\ t2.item.cleanedText # <<>>
           /\ countMatches(t1.item.cleanedText, germanWords)
                 = countMatches(t2.item.cleanedText, englishWords)
           /\ countMatches(t1.item.cleanedText, englishWords)
                 = countMatches(t2.item.cleanedText, germanWords))
          => t2.item.language = SwapLanguage(t1.item.language)

\* C19 witness: one response holds a text with 2 German and 1 English match
\* (de) and a text with 1 German and 2 English matches (en)
C19_Witness ==
    \E t1, t2 \in Transformed :
       /\ t1.item.cleanedText = Chars("und der and") /\ t1.item.language = "de"
       /\ t2.item.cleanedText = Chars("and the und") /\ t2.item.language = "en"

\* Some key of the JSON value q, at any depth, is one of `keys`
RECURSIVE HasKey(_, _)
HasKey(q, keys) ==
    CASE q.t = "object" ->
            \E i \in 1..Len(q.entries) :
               q.entries[i].key \in keys \/ HasKey(q.entries[i].value, keys)
      [] q.t = "array" -> \E i \in 1..Len(q.items) : HasKey(q.items[i], keys)
      [] OTHER -> FALSE

\* C20: a query handed to the adapter's search, count or aggregate reaches
\* the engine only in its sanitized form; in production no key script,
\* script_score or function_score of a caller's query reaches the engine.
C20_QueriesSanitized ==
    (pc \in {"adapter_query", "adapter_done"} /\ IsSome(query)) =>
        LET call == Val(query)
        IN  (call.op \in QueryOps /\ IsSome(sent[1].query)) =>
               /\ sent[1].query = Some(sanitizeQuery(call.query, call.env))
               /\ call.env = "production" =>
                     ~HasKey(Val(sent[1].query),
                             {"script", "script_score", "function_score"})

(***************************************************************************)
(* Concurrency of the two calls, malformed hits, and pagination            *)
(***************************************************************************)
\* C23: for one search request the primary search call and the aggregation
\* call are both issued before either has resolved, each can complete while
\* the other is still open, and the response is composed only after the
\* primary call has resolved and the aggregation call has resolved or
\* degraded to empty.
C23_CallsConcurrent ==
    /\ pc \in {"searching", "search_done", "search_failed"} =>
          /\ Len(sent) = 2
          /\ sent[1].op = "search"
          /\ sent[2].op = "aggregate"
    /\ pc = "searching" =>
          /\ primary.state = "pending" =>
                ENABLED (\E o \in SearchOutcomes : PrimarySettles(o))
          /\ facets.state = "pending" =>
                ENABLED (\E o \in AggregateOutcomes : FacetsSettle(o))
    /\ pc = "search_done" =>
          /\ primary.state = "fulfilled"
          /\ facets.state = "fulfilled"
          /\ \E o \in OutcomeOf("search") : o.ok
          /\ OutcomeOf("aggregate") # {}

\* C23 witness: the aggregation call has failed and degraded to empty while
\* the primary call is still open
C23_Witness ==
    /\ pc = "searching"
    /\ primary.state = "pending"
    /\ facets = Fulfilled(Some(NoAggs))
    /\ \E o \in OutcomeOf("aggregate") : ~o.ok
    /\ OutcomeOf("search") = {}

\* C24: when a hit of a successful engine response has no raw text, the
\* search still returns a success response that holds the transforms of all
\* other hits in engine order, the bad hit being skipped or replaced by a
\* placeholder.
C24_MalformedHitIsolated ==
    \A o \in OutcomeOf("search") :
       (o.ok /\ pc \in {"search_done", "search_failed"}) =>
          LET hits == Val(o.payload).hits
              wellFormed(h) == IsSome(h._source.suchtext)
              others == SelectSeq(hits, wellFormed)
              highlight == Val(query).highlight
          IN  /\ pc = "search_done"
              /\ svc.state = "fulfilled"
              /\ Val(svc.value).success
              /\ LET results == Val(svc.value).results
                 IN  \/ results = [i \in 1..Len(others) |->
                                      transformMediaItem(others[i], highlight)]
                     \/ /\ Len(results) = Len(hits)
                        /\ \A i \in 1..Len(hits) :
                              wellFormed(hits[i]) =>
                                 results[i] = transformMediaItem(hits[i], highlight)

\* C29: the page size and the offset of the response metadata are the size
\* and the offset sent to the engine in the primary search call, also when
\* the request leaves them unset.
C29_MetadataMatchesSentPaging ==
    pc = "search_done" =>
        /\ Val(svc.value).metadata.size = sent[1].size
        /\ Val(svc.value).metadata.from = sent[1].from

\* C30: in a search response whose offset is a multiple of limit and whose
\* hits are min(limit, max(0, total - offset)), hasMore holds iff
\* page < totalPages; and whenever offset < total, 1 <= page <= totalPages.
C30_HasMoreIffNextPage ==
    pc = "search_done" =>
        LET m == Val(svc.value).metadata
            rest == IF m.total > m.from THEN m.total - m.from ELSE 0
            full == IF m.size < rest THEN m.size ELSE rest
        IN  \A o \in OutcomeOf("search") :
              /\ (m.from % m.size = 0 /\ Len(Val(o.payload).hits) = full) =>
                    (m.hasMore <=> m.page < m.totalPages)
              /\ m.from < m.total => (1 <= m.page /\ m.page <= m.totalPages)

\* C30 witness: the second page of two hits out of a total of five
C30_Witness ==
    /\ pc = "search_done"
    /\ LET m == Val(svc.value).metadata
       IN  /\ m.from = 2 /\ m.size = 2 /\ m.total = 5 /\ m.count = 2
           /\ m.hasMore
           /\ m.page = 2 /\ m.totalPages = 3
    /\ \E o \in OutcomeOf("search") : Len(Val(o.payload).hits) = 2

(***************************************************************************)
(* MediaService                                                            *)
(***************************************************************************)
\* The HEAD request has failed: fetch rejected or the response is not ok
HeadFailed(outcome) == outcome.settled = "error" \/ ~outcome.ok

\* C21: MediaService.getMediaItem(id) with an id that is empty, longer than
\* 50 characters or holds a character outside [A-Za-z0-9_-] fails with
\* BadRequest and never invokes the lookup; with a valid id whose lookup
\* returns not-found it fails with NotFound; and when the item is found, a
\* failed HEAD request does not fail the call: the item is returned with
\* imageValidation.isValid = false.
C21_MediaItemValidation ==
    (IsSome(input) /\ Val(input).op = "getMediaItem") =>
        LET id == Val(input).id
            malformed == \/ Len(id) = 0
                         \/ Len(id) > 50
                         \/ \E i \in 1..Len(id) :
                               id[i] \notin WordChars \cup {"-"}
        IN  /\ malformed =>
                  /\ mpc = "done"
                  /\ reply.state = "rejected"
                  /\ Val(reply.error).name = "BadRequestException"
                  /\ Val(reply.error).status = 400
                  /\ lookups = <<>>
            /\ ~malformed =>
                  /\ Len(lookups) = 1
                  /\ lookups[1].id = id
                  /\ lookups[1].result = Fulfilled(None) =>
                        /\ mpc = "done"
                        /\ reply.state = "rejected"
                        /\ Val(reply.error).name = "NotFoundException"
                        /\ Val(reply.error).status = 404
                        /\ heads = <<>>
                  /\ (mpc = "done" /\ IsSome(found)
                        /\ HeadFailed(Val(heads[1].outcome))) =>
                        /\ reply.state = "fulfilled"
                        /\ Val(reply.value).item.id = Val(found).id
                        /\ Val(reply.value).item.bildnummer = id
                        /\ ~Val(Val(reply.value).imageValidation).isValid

\* C21 witness: a found item whose HEAD request was rejected comes back with
\* imageValidation.isValid = false
C21_Witness ==
    /\ mpc = "done"
    /\ IsSome(input) /\ Val(input).id = Chars("258999077")
    /\ IsSome(found)
    /\ Val(heads[1].outcome) = HeadFails("Network error")
    /\ reply.state = "fulfilled"
    /\ Val(Val(reply.value).imageValidation) =
          [isValid |-> FALSE, statusCode |-> 0,
           errors |-> <<ImageError("Network error", 0, "Network error")>>]

\* C22: getImageMetadata on a HEAD response whose content-length header is 0
\* reports contentLength = 0 and lists 'Image file appears to be empty' among
\* its errors.
C22_EmptyFileDetected ==
    \A i \in 1..Len(heads) :
       (heads[i].state = "settled"
          /\ Val(heads[i].outcome).settled = "response"
          /\ Val(heads[i].outcome).contentLength = Some(Chars("0"))) =>
             LET metadata == Val(heads[i].metadata)
             IN  /\ metadata.contentLength = Some([nan |-> FALSE, n |-> 0])
                 /\ IsSome(metadata.errors)
                 /\ \E j \in 1..Len(Val(metadata.errors)) :
                       Val(metadata.errors)[j].text = "Image file appears to be empty"

\* The requests of validateImageUrls that are in flight
InFlight == {i \in 1..Len(heads) : heads[i].state = "pending"}

\* C25 (state part): at most 5 HEAD requests are in flight; a request of a
\* batch exists only when every request of the earlier batches has settled;
\* the returned result has one entry for each distinct input URL, the
\* metadata of the last request for that URL, which is invalid and carries
\* an error when that request failed.
ValidateBatched ==
    (IsSome(input) /\ Val(input).op = "validateImageUrls") =>
        LET urls == Val(input).urls
        IN  /\ Cardinality(InFlight) <= 5
            /\ \A i, j \in 1..Len(heads) :
                  heads[i].batch < heads[j].batch => heads[i].state = "settled"
            /\ \A i \in 1..Len(heads) :
                  /\ heads[i].url = urls[i]
                  /\ heads[i].batch = ((i - 1) \div 5) + 1
            /\ mpc = "done" =>
                  /\ Len(heads) = Len(urls)
                  /\ InFlight = {}
                  /\ reply.state = "fulfilled"
                  /\ DOMAIN Val(reply.value) = {urls[i] : i \in 1..Len(urls)}
                  /\ \A i \in 1..Len(urls) :
                        (\A j \in 1..Len(urls) : urls[j] = urls[i] => j <= i) =>
                           LET entry == Val(reply.value)[urls[i]]
                           IN  /\ entry = Val(heads[i].metadata)
                               /\ HeadFailed(Val(heads[i].outcome)) =>
                                     /\ ~entry.isValid
                                     /\ IsSome(entry.errors)
                                     /\ Len(Val(entry.errors)) > 0

\* C25: during validateImageUrls at most 5 HEAD requests are in flight at
\* any moment, a batch is started only after every request of the previous
\* batch has settled, the call terminates once all batches have settled, and
\* the result has one entry for every distinct input URL (invalid, with an
\* error, when that URL's request failed).
C25_ValidationBatches ==
    /\ []ValidateBatched
    /\ (mpc = "validating") ~> (mpc = "done")

\* C25 witness: six URLs were validated in two batches, the sixth request
\* failed, and the call returned six entries
C25_Witness ==
    /\ mpc = "done"
    /\ IsSome(input) /\ Len(Val(input).urls) = 6
    /\ Len(heads) = 6
    /\ heads[5].batch = 1 /\ heads[6].batch = 2
    /\ Val(heads[6].outcome) = HeadFails("Network error")
    /\ reply.state = "fulfilled"
    /\ Cardinality(DOMAIN Val(reply.value)) = 6
    /\ ~Val(reply.value)["u6"].isValid

(***************************************************************************)
(* Engine client life cycle                                                *)
(***************************************************************************)
\* The clients that were created and not closed
OpenClients == {c \in 1..Len(clients) : clients[c].state = "open"}

\* C26: at any time at most one engine client created by the adapter is
\* open: whenever the health check has replaced the client after a failed
\* ping, every previously created client has been closed.
C26_SingleOpenClient ==
    /\ Cardinality(OpenClients) <= 1
    /\ \A c \in 1..Len(clients) :
          (IsSome(client) /\ c < Val(client)) => clients[c].state = "closed"

\* C27: after onModuleDestroy has completed no ping or reconnect is started
\* and no engine client remains open, also when a reconnect triggered by a
\* failed ping was in flight at shutdown.
C27_QuietAfterDestroy ==
    lifecycle = "destroyed" =>
        /\ OpenClients = {}
        /\ \A c \in 1..Len(clients) : clients[c].born # "destroyed"
        /\ ~ENABLED Tick

\* C28: when a health-check ping fails and the reconnect it triggers fails
\* too, the failure stays inside the health-check task (no unhandled
\* rejection, the process keeps running), the interval stays armed while the
\* module runs, and a tick that completes while the engine is reachable
\* leaves the adapter with an open client.
C28_HealthCheckContained ==
    /\ \A t \in 1..Len(tasks) : tasks[t].at # "unhandled"
    /\ lifecycle # "crashed"
    /\ lifecycle = "running" => interval = "set"
    /\ \A t \in 1..Len(tasks) :
          (lifecycle = "running" /\ tasks[t].kind = "tick" /\ tasks[t].at = "done"
             /\ t = Len(tasks) /\ engine = "up") =>
                clients[Val(client)].state = "open"

====
